---- MODULE Spec2Model ----
(***************************************************************************)
(* State-machine model of libavutil/opencl.c: the process-wide OpenCL      *)
(* environment (gpu_env), the option block (openclutils), the kernel       *)
(* source registry, the compile pass, kernel handles and the init/uninit   *)
(* reference counting.                                                     *)
(*                                                                         *)
(* Pointers are modelled by small values: 0 / "NULL" / << >> stand for a   *)
(* null pointer.  The two array capacities of the C file (500 kernels,     *)
(* 200 kernel sources) are scaled down so that the full-table cases are    *)
(* reachable.  Calls into the OpenCL API are modelled by their documented  *)
(* outcomes, chosen nondeterministically.  A null-pointer dereference or   *)
(* an out-of-bounds array write is undefined behaviour; the model records  *)
(* it in the variable fault and stops there.                               *)
(***************************************************************************)
EXTENDS Integers, Sequences, FiniteSets, TLC

\* ---------------------------------------------------------------- bounds
\* MAX_KERNEL_NUM (opencl.c:43, 500 in the source), scaled down.
MAX_KERNEL_NUM == 1
\* MAX_KERNEL_CODE_NUM (opencl.c:44, 200 in the source), scaled down.
MAX_KERNEL_CODE_NUM == 2
\* Largest reference count the callers drive the environment to.
MaxInit == 2
\* Largest number of unmatched Uninit calls (init_count down to -MaxNeg).
MaxNeg == 1
\* Largest platform / device index a caller configures.
MaxIdx == 1
\* Largest plane count the image helpers accept (opencl.c:759 and 802, 8 in
\* the source), scaled down.
MAX_PLANES == 2
\* Size in bytes of the device buffer the image helpers work on.
BufSize == 3
\* Largest number of GPU devices of a platform in the enumerated machines.
MaxClassDevs == 2

\* ------------------------------------------------------------ error codes
EINVAL == "EINVAL"
ENOMEM == "ENOMEM"
AVERROR_EXTERNAL == "EXTERNAL"
OK == "OK"

\* ---------------------------------------------------------------- inputs
\* Kernel source identities (the kernel_code pointers callers register):
\* more than the table holds, so that a distinct source exists when the
\* table is full.
Sources == {1, 2, 3}

\* strlen() of a registered source; source 3 is the empty string.
SrcLen(s) == IF s = 3 THEN 0 ELSE 1

\* Kernel names a source text defines: sources 1 and 2 both define "kdup".
KernelsIn(s) == IF s \in {1, 2} THEN {"kdup"} ELSE {}

\* Kernel names callers ask for: "kmiss" is defined nowhere, "klong" is
\* longer than the name buffer.
Names == {"kdup", "kmiss", "klong"}
NameTooLong(n) == n = "klong"

\* Caller-owned kernel handles (AVOpenCLKernelEnv objects): more than the
\* kernel limit.
Handles == {1, 2}

\* External environment descriptors a caller may pass to av_opencl_init.
NoExt == [name |-> "none", present |-> FALSE, platform_id |-> 0, context |-> "NULL",
          command_queue |-> "NULL", device_id |-> 0, device_type |-> "NONE"]
ExtA == [name |-> "extA", present |-> TRUE, platform_id |-> 101, context |-> "extA_ctx",
         command_queue |-> "extA_q", device_id |-> 201, device_type |-> "GPU"]
ExtEnvs == {NoExt, ExtA}

\* The installed OpenCL platforms: a sequence of platforms, each a sequence
\* of devices in discovery order (class GPU, CPU, default).  The machine
\* modelled has a platform without devices followed by a platform with two
\* devices, the first of which fails its name query.
Dev(id, ty, ok) == [device_id |-> id, device_type |-> ty, name_ok |-> ok]
NoDevices == << >>
OneNamedDevice == << Dev(11, "GPU", FALSE), Dev(12, "CPU", TRUE) >>
Worlds == { << NoDevices, OneNamedDevice >> }

\* Bind(v, F): F applied to the value of v, with v evaluated once (the
\* local-variable binding of the C code).
Bind(v, F(_)) == CHOOSE y \in { F(x) : x \in {v} } : TRUE

NullProgram == << >>
NullKernel == << >>

VARIABLES gpu_env, openclutils, handles, world, last_op, fault, outstanding,
          submitted,
          lookup,               \* the opencl_errstr call in progress
          enumeration,          \* the most recent get_device_list call on a list of its own
          cl_buf, image_op, image,  \* a device buffer and the plane copies on it
          thread_pc, raced, atomic_opencl_lock   \* the calling threads and the mutex

\* The variables of the environment and of its callers.
env_vars == << gpu_env, openclutils, handles, world, last_op, fault, outstanding,
              submitted >>
\* The variables of the error translator and of the buffer helpers.
unit_vars == << lookup, enumeration, cl_buf, image_op, image >>

\* The variables of the threads that call the locked functions.
thread_vars == << thread_pc, raced, atomic_opencl_lock >>

vars == << gpu_env, openclutils, handles, world, last_op, fault, outstanding,
          submitted, lookup, enumeration, cl_buf, image_op, image, thread_pc, raced,
          atomic_opencl_lock >>

\* ------------------------------------------------------------------ state
EmptyDeviceList == [platform_num |-> 0, platform_node |-> << >>]

\* static GPUEnv gpu_env: zero-initialised.
InitGpuEnv ==
    [init_count |-> 0, platform_idx |-> 0, device_idx |-> 0,
     platform_id |-> 0, device_type |-> "NONE", context |-> "NULL",
     device_id |-> 0, command_queue |-> "NULL",
     program_count |-> 0,
     programs |-> [i \in 0 .. (MAX_KERNEL_CODE_NUM - 1) |-> NullProgram],
     kernel_code |-> << >>,
     kernel_count |-> 0, is_user_created |-> 0,
     device_list |-> EmptyDeviceList]

\* static OpenclUtils openclutils: zero-initialised apart from the class.
InitOpenclUtils == [init_flag |-> 0, platform_idx |-> 0, device_idx |-> 0]

EmptyHandle == [kernel |-> NullKernel, command_queue |-> "NULL", kernel_name |-> ""]

\* last_op: the most recent call, its argument (the descriptor of init, the
\* source of register, the handle of create/release), its return value,
\* the place it returned from and the API calls it made.  detail is a
\* sequence: the blob init handed to the compiler, the name create_kernel
\* was asked for, the release calls of uninit in the order they were made.
Call(op, arg, ret, site, api) ==
    [op |-> op, arg |-> arg, ret |-> ret, site |-> site, api |-> api,
     detail |-> << >>]
NoOp == Call("none", "", OK, "", {})

\* No opencl_errstr call has been made; no device buffer exists.
NoLookup == [status |-> "", i |-> 0, result |-> "", running |-> FALSE]
NoBuffer == << >>
NoImage == [offset |-> 0, planes |-> << >>, valid |-> FALSE, tried |-> FALSE]
\* image_op: the most recent buffer call, its arguments (offset, plane_num,
\* plane_size), its return value, the API calls it made, the number of bytes
\* it mapped and the planes it copied (from the caller on a write, to the
\* caller on a read).
ImageOp(op, offset, pn, sizes, ret, api, mapped, planes) ==
    [op |-> op, offset |-> offset, plane_num |-> pn, plane_size |-> sizes,
     ret |-> ret, api |-> api, mapped |-> mapped, planes |-> planes]
NoImageOp == ImageOp("none", 0, 0, << >>, OK, {}, 0, << >>)
\* No get_device_list call has been made on a list of its own.
NoEnumeration == [machine |-> << >>, skipped |-> {}, ret |-> OK, list |-> EmptyDeviceList]
InitUnits ==
    /\ lookup = NoLookup
    /\ enumeration = NoEnumeration
    /\ cl_buf = NoBuffer
    /\ image_op = NoImageOp
    /\ image = NoImage

\* The threads of the process; each is outside the module ("idle"), at
\* LOCK_OPENCL ("lock"), in the body of a locked function ("body") or at
\* UNLOCK_OPENCL ("unlock").  atomic_opencl_lock is 0 or the thread that
\* holds the mutex.
Threads == {1, 2}
InitThreads ==
    /\ thread_pc = [t \in Threads |-> "idle"]
    /\ raced = [t \in Threads |-> FALSE]
    /\ atomic_opencl_lock = 0
\* A step of a program with one thread, whose calls are atomic.
Sequential == UNCHANGED thread_vars

Init ==
    /\ InitThreads
    /\ InitUnits
    /\ gpu_env = InitGpuEnv
    /\ openclutils = InitOpenclUtils
    /\ handles = [h \in Handles |-> EmptyHandle]
    /\ world \in Worlds
    /\ last_op = NoOp
    /\ fault = "none"
    /\ outstanding = 0
    /\ submitted = [s \in Sources |-> 0]

\* ------------------------------------------------- av_opencl_register_kernel_code
\* kernel_code_count is Len(kernel_code).
RegisteredAt(env, s) == { i \in 1 .. Len(env.kernel_code) : env.kernel_code[i].kernel_string = s }

\* Mutant: the capacity test is missing.
register_kernel_code_unchecked(env, s) ==
    IF RegisteredAt(env, s) # {}
    THEN [env |-> env, ret |-> OK, site |-> "duplicate"]
    ELSE [env |-> [env EXCEPT !.kernel_code =
                       Append(@, [kernel_string |-> s, is_compiled |-> 0])],
          ret |-> OK, site |-> "appended"]

register_kernel_code(env, s) ==
    IF Len(env.kernel_code) >= MAX_KERNEL_CODE_NUM
    THEN [env |-> env, ret |-> EINVAL, site |-> "code_limit"]
    ELSE IF RegisteredAt(env, s) # {}
    THEN [env |-> env, ret |-> OK, site |-> "duplicate"]
    ELSE [env |-> [env EXCEPT !.kernel_code =
                       Append(@, [kernel_string |-> s, is_compiled |-> 0])],
          ret |-> OK, site |-> "appended"]

RegisterSource(s) ==
    /\ fault = "none"
    /\ UNCHANGED unit_vars
    /\ \E r \in {register_kernel_code(gpu_env, s)} :
       /\ gpu_env' = r.env
       /\ last_op' = Call("register", ToString(s), r.ret, r.site, {})
    /\ UNCHANGED << openclutils, handles, world, fault, outstanding, submitted >>

\* ------------------------------------------------------------ av_opencl_set_option
\* av_opt_set_defaults on the two integer options (both default to -1).
opt_set_defaults(u) == [u EXCEPT !.platform_idx = -1, !.device_idx = -1]

\* Only the integer options platform_idx and device_idx are modelled; the
\* build_options string is handed to the compiler, whose outcome is chosen
\* nondeterministically in compile_kernel_file.
OptKeys == {"platform_idx", "device_idx"}
\* The values callers give them: automatic selection, or the index MaxIdx.
IdxValues == {-1, MaxIdx}

set_option(u, key, val) ==
    LET u1 == IF u.init_flag = 0
              THEN [opt_set_defaults(u) EXCEPT !.init_flag = 1]
              ELSE u
    IN IF key = "platform_idx" THEN [u1 EXCEPT !.platform_idx = val]
       ELSE [u1 EXCEPT !.device_idx = val]

\* Callers configure the options before they register sources or initialise
\* (the configuration phase): the environment is still as constructed.
SetOption(key, val) ==
    /\ fault = "none"
    /\ UNCHANGED unit_vars
    /\ gpu_env = InitGpuEnv
    /\ openclutils' = set_option(openclutils, key, val)
    /\ last_op' = Call("set_option", "", OK, "", {})
    /\ UNCHANGED << gpu_env, handles, world, fault, outstanding, submitted >>

\* ------------------------------------------------------------ device enumeration
\* free_device_list: walks platform_node[0 .. platform_num-1]; with a null
\* platform_node and platform_num > 0 the walk dereferences a null pointer.
free_device_list(dl) ==
    IF dl.platform_num > Len(dl.platform_node)
    THEN [dl |-> dl, fault |-> "null_deref"]
    ELSE [dl |-> EmptyDeviceList, fault |-> "none"]

\* The devices of one platform that end up in slots 0 .. device_num-1:
\* a device whose name query fails does not advance device_num.
NameOk(d) == d.name_ok
PlatformNode(w, i) ==
    LET devs == SelectSeq(w[i], NameOk) IN
    [platform_id |-> i, device_num |-> Len(devs),
     device_node |-> [k \in 1 .. Len(devs) |->
                        [device_id |-> devs[k].device_id,
                         device_type |-> devs[k].device_type]]]

\* Outcomes of the API and allocator calls inside get_device_list.
GdlOutcomes == {"ok", "query1_fail", "ids_alloc_fail", "query2_fail",
                "node_alloc_fail", "late_alloc_fail"}

get_device_list(dl, w, o) ==
    LET counted == [dl EXCEPT !.platform_num = Len(w)] IN
    CASE o = "query1_fail" ->
           [dl |-> dl, ret |-> AVERROR_EXTERNAL, fault |-> "none"]
      [] o = "ids_alloc_fail" ->
           [dl |-> counted, ret |-> ENOMEM, fault |-> "none"]
      [] o = "query2_fail" ->
           LET f == free_device_list(counted) IN
           [dl |-> f.dl, ret |-> AVERROR_EXTERNAL, fault |-> f.fault]
      [] o = "node_alloc_fail" ->
           LET f == free_device_list(counted) IN
           [dl |-> f.dl, ret |-> ENOMEM, fault |-> f.fault]
      [] o = "late_alloc_fail" ->
           \* platform_node is allocated by now, later entries are null
           [dl |-> EmptyDeviceList, ret |-> ENOMEM, fault |-> "none"]
      [] OTHER ->
           [dl |-> [platform_num |-> Len(w),
                    platform_node |-> [i \in 1 .. Len(w) |-> PlatformNode(w, i)]],
            ret |-> OK, fault |-> "none"]

\* ---------------------------------------------------------------- init_opencl_env
\* Outcomes of the API calls inside init_opencl_env: the first call that
\* fails, if any (the function returns at its first failure).
EnvOutcomes == GdlOutcomes \cup {"context_fail", "queue_fail"}

CtxOk(o) == o # "context_fail"
QueueOk(o) == o # "queue_fail"

EnvRes(env, ret, site, api, flt) ==
    [env |-> env, ret |-> ret, site |-> site, api |-> api, fault |-> flt]

\* The part of init_opencl_env after the device list is available
\* (opencl.c:483-546); api is the set of API calls made so far.
select_and_create(env, o, api) ==
    LET dl == env.device_list
        pidx == env.platform_idx
        \* opencl.c:496-502: first platform with at least one device
        usable == { i \in 1 .. dl.platform_num : dl.platform_node[i].device_num > 0 }
        first == CHOOSE i \in usable : \A j \in usable : i <= j
        e1 == IF pidx >= 0
              THEN [env EXCEPT !.platform_id = dl.platform_node[pidx + 1].platform_id]
              ELSE IF usable # {}
              THEN [env EXCEPT !.platform_id = dl.platform_node[first].platform_id,
                               !.platform_idx = first - 1]
              ELSE env
        e2 == IF e1.device_idx >= 0 THEN e1 ELSE [e1 EXCEPT !.device_idx = 0]
        node == dl.platform_node[e2.platform_idx + 1].device_node[e2.device_idx + 1]
        e3 == [e2 EXCEPT !.device_id = node.device_id,
                         !.device_type = node.device_type]
        e4 == [e3 EXCEPT !.context = IF CtxOk(o) THEN "own_ctx" ELSE "NULL"]
        e5 == [e4 EXCEPT !.command_queue = IF QueueOk(o) THEN "own_q" ELSE "NULL"]
        api4 == api \cup {"clCreateContextFromType"}
        api5 == api4 \cup {"clCreateCommandQueue"}
    IN
    IF pidx >= 0 /\ dl.platform_num < pidx + 1
    THEN EnvRes(env, EINVAL, "platform_idx", api, "none")
    ELSE IF dl.platform_num > Len(dl.platform_node)
    THEN \* platform_node is null: platform_node[..]->device_num
         EnvRes(env, OK, "platform_node", api, "null_deref")
    ELSE IF pidx >= 0 /\ dl.platform_node[pidx + 1].device_num = 0
    THEN EnvRes(env, EINVAL, "no_devices", api, "none")
    ELSE IF e1.platform_id = 0
    THEN EnvRes(e1, AVERROR_EXTERNAL, "no_platform", api, "none")
    ELSE IF e1.platform_idx < 0
    THEN \* platform_node[-1]
         EnvRes(e1, OK, "platform_node", api, "oob_read")
    ELSE IF e1.device_idx >= 0
            /\ dl.platform_node[e1.platform_idx + 1].device_num < e1.device_idx + 1
    THEN EnvRes(e1, EINVAL, "device_idx", api, "none")
    ELSE IF dl.platform_node[e2.platform_idx + 1].device_num < e2.device_idx + 1
    THEN \* device_node[device_idx] past the filled slots
         EnvRes(e2, OK, "device_node", api, "null_deref")
    ELSE IF ~CtxOk(o)
    THEN EnvRes(e4, AVERROR_EXTERNAL, "context", api4, "none")
    ELSE IF ~QueueOk(o)
    THEN EnvRes(e5, AVERROR_EXTERNAL, "command_queue", api5, "none")
    ELSE EnvRes(e5, OK, "created", api5, "none")

init_opencl_env(env, ext, w, o) ==
    IF ext.present
    THEN IF env.is_user_created = 1
         THEN EnvRes(env, OK, "already_external", {}, "none")
         ELSE EnvRes([env EXCEPT !.platform_id = ext.platform_id,
                                 !.is_user_created = 1,
                                 !.command_queue = ext.command_queue,
                                 !.context = ext.context,
                                 !.device_id = ext.device_id,
                                 !.device_type = ext.device_type],
                     OK, "adopted", {}, "none")
    ELSE IF env.is_user_created = 1
    THEN EnvRes(env, OK, "already_external", {}, "none")
    ELSE IF env.device_list.platform_num = 0
    THEN Bind(get_device_list(env.device_list, w, o), LAMBDA g :
         Bind([env EXCEPT !.device_list = g.dl], LAMBDA e0 :
            IF g.fault # "none"
            THEN EnvRes(e0, OK, "free_device_list", {"clGetPlatformIDs"}, g.fault)
            ELSE IF g.ret # OK
            THEN EnvRes(e0, g.ret, "get_device_list", {"clGetPlatformIDs"}, "none")
            ELSE select_and_create(e0, o, {"clGetPlatformIDs"})))
    ELSE select_and_create(env, o, {})

\* ------------------------------------------------------------ compile_kernel_file
CompileOutcomes == {"ok", "malloc_fail", "create_fail", "null_program", "build_fail"}

\* opencl.c:559-562: total strlen of the entries not yet compiled.
RECURSIVE SourceStrLen(_)
SourceStrLen(kc) ==
    IF kc = << >> THEN 0
    ELSE (IF Head(kc).is_compiled = 0 THEN SrcLen(Head(kc).kernel_string) ELSE 0)
         + SourceStrLen(Tail(kc))

\* Mutant: every entry is copied into the blob, compiled or not.
SourceBlob_all(kc) == [i \in 1 .. Len(kc) |-> kc[i].kernel_string]

\* opencl.c:571-578: the blob, as the sequence of the sources copied into it.
RECURSIVE SourceBlob(_)
SourceBlob(kc) ==
    IF kc = << >> THEN << >>
    ELSE (IF Head(kc).is_compiled = 0 THEN << Head(kc).kernel_string >> ELSE << >>)
         \o SourceBlob(Tail(kc))

\* Mutant: the entries copied into the blob are not marked.
MarkCompiled_never(kc) == kc

\* opencl.c:575: every entry copied into the blob is marked compiled.
MarkCompiled(kc) == [i \in 1 .. Len(kc) |-> [kc[i] EXCEPT !.is_compiled = 1]]

CompRes(env, ret, site, api, blob, flt) ==
    [env |-> env, ret |-> ret, site |-> site, api |-> api, blob |-> blob, fault |-> flt]

compile_kernel_file(env, o) ==
    LET blob == SourceBlob(env.kernel_code)
        marked == [env EXCEPT !.kernel_code = MarkCompiled(@)]
        pc == env.program_count
        created == {"clCreateProgramWithSource"}
        built == created \cup {"clBuildProgram"}
    IN
    IF SourceStrLen(env.kernel_code) = 0
    THEN CompRes(env, OK, "nothing_to_compile", {}, << >>, "none")
    ELSE IF o = "malloc_fail"
    THEN CompRes(env, ENOMEM, "malloc", {}, << >>, "none")
    ELSE IF pc >= MAX_KERNEL_CODE_NUM
    THEN \* programs[program_count] is past the end of the array
         CompRes(marked, OK, "programs", created, blob, "oob_write")
    ELSE IF o = "create_fail" \/ env.context = "NULL"
    THEN \* a null context is CL_INVALID_CONTEXT
         CompRes([marked EXCEPT !.programs[pc] = NullProgram],
                 AVERROR_EXTERNAL, "create_program", created, blob, "none")
    ELSE IF o = "null_program"
    THEN CompRes([marked EXCEPT !.programs[pc] = NullProgram],
                 AVERROR_EXTERNAL, "null_program", created, blob, "none")
    ELSE IF o = "build_fail"
    THEN CompRes([marked EXCEPT !.programs[pc] = blob],
                 AVERROR_EXTERNAL, "build_program", built, blob, "none")
    ELSE CompRes([marked EXCEPT !.programs[pc] = blob, !.program_count = pc + 1],
                 OK, "compiled", built, blob, "none")

\* ------------------------------------------------------------------ av_opencl_init
InitRes(env, u, ret, site, api, blob, flt) ==
    [env |-> env, utils |-> u, ret |-> ret, site |-> site, api |-> api,
     blob |-> blob, fault |-> flt]

\* opencl.c:623-632, after the environment exists.
compile_and_count(env, u, api, co) ==
    Bind(compile_kernel_file(env, co), LAMBDA c :
    IF c.fault # "none"
    THEN InitRes(c.env, u, OK, c.site, api \cup c.api, c.blob, c.fault)
    ELSE IF c.ret # OK
    THEN InitRes(c.env, u, c.ret, c.site, api \cup c.api, c.blob, "none")
    ELSE IF Len(c.env.kernel_code) <= 0
    THEN InitRes(c.env, u, EINVAL, "no_kernel_code", api \cup c.api, c.blob, "none")
    ELSE InitRes([c.env EXCEPT !.init_count = @ + 1], u, OK, "init",
                 api \cup c.api, c.blob, "none"))

\* One av_opencl_init call meets at most one failing API call: o names it.
InitOutcomes == EnvOutcomes \cup CompileOutcomes

opencl_init(env, u, ext, w, o) ==
    IF env.init_count = 0
    THEN LET u1 == IF u.init_flag = 0
                   THEN [opt_set_defaults(u) EXCEPT !.init_flag = 1]
                   ELSE u
             e0 == [env EXCEPT !.device_idx = u1.device_idx,
                               !.platform_idx = u1.platform_idx]
         IN Bind(init_opencl_env(e0, ext, w, o), LAMBDA r :
            IF r.fault # "none"
            THEN InitRes(r.env, u1, OK, r.site, r.api, << >>, r.fault)
            ELSE IF r.ret # OK
            THEN InitRes(r.env, u1, r.ret, r.site, r.api, << >>, "none")
            ELSE compile_and_count(r.env, u1, r.api, o))
    ELSE compile_and_count(env, u, {}, o)

\* How many blobs handed to the compiler contained each source (history).
Submit(sub, blob) ==
    [s \in Sources |->
        IF \E i \in 1 .. Len(blob) : blob[i] = s
        THEN (IF sub[s] < 2 THEN sub[s] + 1 ELSE 2)
        ELSE sub[s]]

\* The outcomes a call can meet: discovery runs only on a first init of an
\* environment that is not external and is given no descriptor.
Consulted(env, ext) ==
    IF env.init_count = 0 /\ ~ext.present /\ env.is_user_created = 0
    THEN InitOutcomes ELSE CompileOutcomes

OpenclInit(ext, o) ==
    /\ fault = "none"
    /\ UNCHANGED unit_vars
    /\ gpu_env.init_count < MaxInit
    /\ o \in Consulted(gpu_env, ext)
    /\ \E r \in {opencl_init(gpu_env, openclutils, ext, world, o)} :
       /\ gpu_env' = r.env
       /\ openclutils' = r.utils
       /\ fault' = r.fault
       /\ submitted' = Submit(submitted, r.blob)
       /\ last_op' = [Call("init", ext.name, r.ret, r.site, r.api)
                          EXCEPT !.detail = r.blob]
       /\ outstanding' = IF r.fault = "none" /\ r.ret = OK
                         THEN outstanding + 1 ELSE outstanding
    /\ UNCHANGED << handles, world >>

\* ---------------------------------------------------------------- av_opencl_uninit
UninitRes(env, api, flt) == [env |-> env, api |-> api, fault |-> flt]

ReleaseCalls == {"clReleaseProgram", "clReleaseCommandQueue", "clReleaseContext"}

\* opencl.c:649-675: release the programs, the queue, the context and the
\* cached device list; a failed release is logged and the walk goes on.
uninit_teardown(e1) ==
    LET live == { i \in 0 .. (e1.program_count - 1) : e1.programs[i] # NullProgram }
        e2 == [e1 EXCEPT !.programs = [i \in DOMAIN @ |->
                                          IF i \in live THEN NullProgram ELSE @[i]]]
        e3 == [e2 EXCEPT !.command_queue = "NULL"]
        e4 == [e3 EXCEPT !.context = "NULL"]
        f == free_device_list(e4.device_list)
        api == (IF live # {} THEN {"clReleaseProgram"} ELSE {})
               \cup (IF e1.command_queue # "NULL" THEN {"clReleaseCommandQueue"} ELSE {})
               \cup (IF e1.context # "NULL" THEN {"clReleaseContext"} ELSE {})
               \cup {"free_device_list"}
    IN UninitRes([e4 EXCEPT !.device_list = f.dl], api, f.fault)

\* opencl.c:649-675 as the calls made, in order: one clReleaseProgram per
\* non-null slot below program_count, then the queue and the context when
\* they are non-null, then free_device_list.
teardown_calls(e1) ==
    LET slots == { i \in 0 .. (e1.program_count - 1) : e1.programs[i] # NullProgram }
        RECURSIVE progs(_)
        progs(i) == IF i >= e1.program_count THEN << >>
                    ELSE (IF i \in slots
                          THEN << [call |-> "clReleaseProgram", slot |-> i] >>
                          ELSE << >>) \o progs(i + 1)
    IN progs(0)
       \o (IF e1.command_queue # "NULL"
           THEN << [call |-> "clReleaseCommandQueue", slot |-> -1] >> ELSE << >>)
       \o (IF e1.context # "NULL"
           THEN << [call |-> "clReleaseContext", slot |-> -1] >> ELSE << >>)
       \o << [call |-> "free_device_list", slot |-> -1] >>

\* The status each release call reports: at most one call of a teardown
\* fails (rf names it); the code logs the status and goes on.
ReleaseOutcomes == {"none"} \cup ReleaseCalls
Reported(calls, rf) ==
    [k \in 1 .. Len(calls) |->
        [call |-> calls[k].call, slot |-> calls[k].slot,
         status |-> IF calls[k].call = rf THEN "CL_ERROR" ELSE "CL_SUCCESS"]]

\* Mutant: the teardown is not held back by outstanding kernels.
opencl_uninit_ignoring_kernels(env) ==
    LET e1 == [env EXCEPT !.init_count = @ - 1] IN
    IF e1.is_user_created = 1
    THEN UninitRes(e1, {}, "none")
    ELSE IF e1.init_count > 0
    THEN UninitRes(e1, {}, "none")
    ELSE uninit_teardown(e1)

\* Mutant: the teardown does not look at the provenance flag.
opencl_uninit_ignoring_owner(env) ==
    LET e1 == [env EXCEPT !.init_count = @ - 1] IN
    IF e1.init_count > 0 \/ e1.kernel_count > 0
    THEN UninitRes(e1, {}, "none")
    ELSE uninit_teardown(e1)

opencl_uninit(env) ==
    LET e1 == [env EXCEPT !.init_count = @ - 1] IN
    IF e1.is_user_created = 1
    THEN UninitRes(e1, {}, "none")
    ELSE IF e1.init_count > 0 \/ e1.kernel_count > 0
    THEN UninitRes(e1, {}, "none")
    ELSE uninit_teardown(e1)

\* A release outcome is consulted only by a call that tears down.
TearsDown(env) ==
    /\ env.is_user_created = 0
    /\ env.init_count - 1 <= 0
    /\ env.kernel_count <= 0

OpenclUninit(rf) ==
    /\ fault = "none"
    /\ UNCHANGED unit_vars
    /\ gpu_env.init_count > -MaxNeg
    /\ rf # "none" => /\ TearsDown(gpu_env)
                      /\ \E k \in 1 .. Len(teardown_calls(gpu_env)) :
                            teardown_calls(gpu_env)[k].call = rf
    /\ \E r \in {opencl_uninit(gpu_env)} :
       /\ gpu_env' = r.env
       /\ fault' = r.fault
       /\ last_op' = [Call("uninit", "", OK, "", r.api)
                          EXCEPT !.detail =
                             IF "free_device_list" \in r.api
                             THEN Reported(teardown_calls(gpu_env), rf)
                             ELSE << >>]
    /\ outstanding' = outstanding - 1
    /\ UNCHANGED << openclutils, handles, world, submitted >>

\* ------------------------------------------------------------ av_opencl_create_kernel
\* clCreateKernel(program, name): succeeds when the program is a built program
\* that defines the name.  A kernel object is <<program slot, name>>.
Exposes(prog, name) == \E i \in 1 .. Len(prog) : name \in KernelsIn(prog[i])

\* Mutant: the search does not stop at the first program that yields the kernel.
FirstMatch_last(env, name) ==
    LET hits == { i \in 0 .. (env.program_count - 1) : Exposes(env.programs[i], name) }
    IN IF hits = {} THEN -1 ELSE CHOOSE i \in hits : \A j \in hits : i >= j

\* opencl.c:421-425: the first program, in table order, that yields the kernel.
FirstMatch(env, name) ==
    LET hits == { i \in 0 .. (env.program_count - 1) : Exposes(env.programs[i], name) }
    IN IF hits = {} THEN -1 ELSE CHOOSE i \in hits : \A j \in hits : i <= j

KernRes(env, h, ret, site, api) ==
    [env |-> env, handle |-> h, ret |-> ret, site |-> site, api |-> api]

\* Mutant: the kernel limit is tested with > instead of >=.
create_kernel_off_by_one(env, h, name) ==
    LET m == FirstMatch(env, name) IN
    IF NameTooLong(name)
    THEN KernRes(env, h, EINVAL, "name_too_long", {})
    ELSE IF h.kernel # NullKernel
    THEN KernRes(env, h, OK, "already_created", {})
    ELSE IF env.kernel_count > MAX_KERNEL_NUM
    THEN KernRes(env, h, EINVAL, "kernel_limit", {})
    ELSE IF env.program_count = 0
    THEN KernRes(env, h, EINVAL, "no_program", {})
    ELSE IF m < 0
    THEN \* every clCreateKernel failed and returned a null kernel
         KernRes(env, [h EXCEPT !.kernel = NullKernel], AVERROR_EXTERNAL,
                 "create_kernel", {"clCreateKernel"})
    ELSE KernRes([env EXCEPT !.kernel_count = @ + 1],
                 [kernel |-> << m, name >>, command_queue |-> env.command_queue,
                  kernel_name |-> name],
                 OK, "created", {"clCreateKernel"})

\* Mutant: the kernel limit is tested before the handle is looked at.
create_kernel_limit_first(env, h, name) ==
    LET m == FirstMatch(env, name) IN
    IF NameTooLong(name)
    THEN KernRes(env, h, EINVAL, "name_too_long", {})
    ELSE IF env.kernel_count >= MAX_KERNEL_NUM
    THEN KernRes(env, h, EINVAL, "kernel_limit", {})
    ELSE IF h.kernel # NullKernel
    THEN KernRes(env, h, OK, "already_created", {})
    ELSE IF env.program_count = 0
    THEN KernRes(env, h, EINVAL, "no_program", {})
    ELSE IF m < 0
    THEN KernRes(env, [h EXCEPT !.kernel = NullKernel], AVERROR_EXTERNAL,
                 "create_kernel", {"clCreateKernel"})
    ELSE KernRes([env EXCEPT !.kernel_count = @ + 1],
                 [kernel |-> << m, name >>, command_queue |-> env.command_queue,
                  kernel_name |-> name],
                 OK, "created", {"clCreateKernel"})

create_kernel(env, h, name) ==
    LET m == FirstMatch(env, name) IN
    IF NameTooLong(name)
    THEN KernRes(env, h, EINVAL, "name_too_long", {})
    ELSE IF h.kernel # NullKernel
    THEN KernRes(env, h, OK, "already_created", {})
    ELSE IF env.kernel_count >= MAX_KERNEL_NUM
    THEN KernRes(env, h, EINVAL, "kernel_limit", {})
    ELSE IF env.program_count = 0
    THEN KernRes(env, h, EINVAL, "no_program", {})
    ELSE IF m < 0
    THEN \* every clCreateKernel failed and returned a null kernel
         KernRes(env, [h EXCEPT !.kernel = NullKernel], AVERROR_EXTERNAL,
                 "create_kernel", {"clCreateKernel"})
    ELSE KernRes([env EXCEPT !.kernel_count = @ + 1],
                 [kernel |-> << m, name >>, command_queue |-> env.command_queue,
                  kernel_name |-> name],
                 OK, "created", {"clCreateKernel"})

CreateKernel(h, name) ==
    /\ fault = "none"
    /\ UNCHANGED unit_vars
    /\ \E r \in {create_kernel(gpu_env, handles[h], name)} :
       /\ gpu_env' = r.env
       /\ handles' = [handles EXCEPT ![h] = r.handle]
       /\ last_op' = [Call("create_kernel", ToString(h), r.ret, r.site, r.api)
                          EXCEPT !.detail = << name >>]
    /\ UNCHANGED << openclutils, world, fault, outstanding, submitted >>

\* ----------------------------------------------------------- av_opencl_release_kernel
\* Mutant: releasing the last kernel of an environment whose count is
\* already 0 completes the teardown that Uninit held back.
release_kernel_tearing_down(env, h) ==
    IF h.kernel = NullKernel
    THEN KernRes(env, h, OK, "empty", {})
    ELSE IF env.kernel_count = 1 /\ env.init_count <= 0 /\ env.is_user_created = 0
    THEN KernRes([uninit_teardown(env).env EXCEPT !.kernel_count = 0], EmptyHandle,
                 OK, "released", {"clReleaseKernel"} \cup uninit_teardown(env).api)
    ELSE KernRes([env EXCEPT !.kernel_count = @ - 1], EmptyHandle, OK, "released",
                 {"clReleaseKernel"})

\* Mutant: the kernel is released but kernel_count is left as it was.
release_kernel_no_decrement(env, h) ==
    IF h.kernel = NullKernel
    THEN KernRes(env, h, OK, "empty", {})
    ELSE KernRes(env, EmptyHandle, OK, "released", {"clReleaseKernel"})

release_kernel(env, h) ==
    IF h.kernel = NullKernel
    THEN KernRes(env, h, OK, "empty", {})
    ELSE KernRes([env EXCEPT !.kernel_count = @ - 1], EmptyHandle, OK, "released",
                 {"clReleaseKernel"})

ReleaseKernel(h) ==
    /\ fault = "none"
    /\ UNCHANGED unit_vars
    /\ \E r \in {release_kernel(gpu_env, handles[h])} :
       /\ gpu_env' = r.env
       /\ handles' = [handles EXCEPT ![h] = r.handle]
       /\ last_op' = Call("release_kernel", ToString(h), r.ret, r.site, r.api)
    /\ UNCHANGED << openclutils, world, fault, outstanding, submitted >>

Next ==
    \/ \E s \in Sources : RegisterSource(s) /\ Sequential
    \/ \E k \in OptKeys, v \in IdxValues : SetOption(k, v) /\ Sequential
    \/ \E ext \in ExtEnvs, o \in InitOutcomes : OpenclInit(ext, o) /\ Sequential
    \/ \E rf \in ReleaseOutcomes : OpenclUninit(rf) /\ Sequential
    \/ \E h \in Handles, n \in Names : CreateKernel(h, n) /\ Sequential
    \/ \E h \in Handles : ReleaseKernel(h) /\ Sequential

Spec == Init /\ [][Next]_vars

\* ------------------------------------------------------------ threads and the lock
\* av_opencl_get_option: reads the option block.
GetOption(key) ==
    /\ fault = "none"
    /\ UNCHANGED unit_vars
    /\ last_op' = [Call("get_option", key, OK, "", {})
                      EXCEPT !.detail = << IF key = "platform_idx"
                                           THEN openclutils.platform_idx
                                           ELSE openclutils.device_idx >>]
    /\ UNCHANGED << gpu_env, openclutils, handles, world, fault, outstanding,
                    submitted >>

\* A thread calls one of the locked functions and arrives at LOCK_OPENCL.
CallLocked(t) ==
    /\ fault = "none"
    /\ thread_pc[t] = "idle"
    /\ thread_pc' = [thread_pc EXCEPT ![t] = "lock"]
    /\ raced' = [raced EXCEPT ![t] = FALSE]
    /\ UNCHANGED << env_vars, unit_vars, atomic_opencl_lock >>

\* Mutant: the lock macros are empty.
CanLock_empty(m) == TRUE

\* pthread_mutex_lock returns when the mutex is free (opencl.c:34).
CanLock(m) == m = 0

LOCK_OPENCL(t) ==
    /\ fault = "none"
    /\ thread_pc[t] = "lock"
    /\ CanLock(atomic_opencl_lock)
    /\ atomic_opencl_lock' = t
    /\ thread_pc' = [thread_pc EXCEPT ![t] = "body"]
    /\ UNCHANGED << env_vars, unit_vars, raced >>

\* The inputs of the calls the threads make.
ThreadInitOutcomes == {"ok", "query1_fail", "build_fail"}

\* The body of the function the thread called, from behind LOCK_OPENCL to
\* the label end (or the last statement before UNLOCK_OPENCL).  raced
\* notes, for a thread waiting at LOCK_OPENCL, that another thread ran the
\* body of av_opencl_init meanwhile.
Body(t) ==
    /\ thread_pc[t] = "body"
    /\ \/ RegisterSource(1)
       \/ \E k \in OptKeys : SetOption(k, MaxIdx - 1)
       \/ \E k \in OptKeys : GetOption(k)
       \/ \E o \in ThreadInitOutcomes : OpenclInit(NoExt, o)
       \/ OpenclUninit("none")
       \/ CreateKernel(1, "kdup")
       \/ ReleaseKernel(1)
    /\ thread_pc' = [thread_pc EXCEPT ![t] = "unlock"]
    /\ raced' = [u \in Threads |->
                   IF u # t /\ thread_pc[u] = "lock" /\ last_op'.op = "init"
                   THEN TRUE ELSE raced[u]]
    /\ UNCHANGED atomic_opencl_lock

\* pthread_mutex_unlock and the return (opencl.c:35).
UNLOCK_OPENCL(t) ==
    /\ thread_pc[t] = "unlock"
    /\ atomic_opencl_lock' = 0
    /\ thread_pc' = [thread_pc EXCEPT ![t] = "idle"]
    /\ UNCHANGED << env_vars, unit_vars, raced >>

NextThreads ==
    \/ \E t \in Threads : CallLocked(t)
    \/ \E t \in Threads : LOCK_OPENCL(t)
    \/ \E t \in Threads : Body(t)
    \/ \E t \in Threads : UNLOCK_OPENCL(t)

SpecThreads == Init /\ [][NextThreads]_vars

\* ------------------------------------------------------------ buffers and images
\* A device buffer is the sequence of its bytes; 0 is a byte never written.
FreshBuffer == [k \in 1 .. BufSize |-> 0]

\* Arguments of the image helpers: the plane count (an int, so also -1 and
\* one more than the largest accepted), the sizes of the planes, the offset
\* of a write.
PlaneNums == -1 .. (MAX_PLANES + 1)
PlaneSizes == {0, 1, 2}
Offsets == {0, 1, 2}
SizeArrays(pn) ==
    IF pn < 0 \/ pn > MAX_PLANES THEN {<< >>} ELSE [1 .. pn -> PlaneSizes]
\* src_data of a write: byte j of plane i is 10 * i + j.
PlaneData(sizes) == [i \in 1 .. Len(sizes) |-> [j \in 1 .. sizes[i] |-> 10 * i + j]]

\* Outcomes of clEnqueueMapBuffer and clEnqueueUnmapMemObject.
MapOutcomes == {"ok", "map_fail", "unmap_fail"}
\* Outcomes of clCreateBuffer.
BufferOutcomes == {"ok", "create_fail"}

\* opencl.c:762-764 and 805-807: buffer_size after i planes.
RECURSIVE PlaneOffset(_, _)
PlaneOffset(sizes, i) == IF i = 0 THEN 0 ELSE PlaneOffset(sizes, i - 1) + sizes[i]

\* clEnqueueMapBuffer(queue, buf, .., 0, size, ..): fails on its own account,
\* without a command queue, or when the region leaves the buffer.
MapOk(buf, queue, size, o) == o # "map_fail" /\ queue # "NULL" /\ size <= Len(buf)

ImgRes(buf, ret, api, mapped, planes) ==
    [buf |-> buf, ret |-> ret, api |-> api, mapped |-> mapped, planes |-> planes]

\* opencl.c:776-781: the planes copied one behind the other from temp on.
CopyIn(buf, start, data) ==
    [k \in 1 .. Len(buf) |->
        IF \E i \in 1 .. Len(data) :
              /\ k > start + PlaneOffset([p \in 1 .. Len(data) |-> Len(data[p])], i - 1)
              /\ k <= start + PlaneOffset([p \in 1 .. Len(data) |-> Len(data[p])], i)
        THEN LET i == CHOOSE i \in 1 .. Len(data) :
                       /\ k > start + PlaneOffset([p \in 1 .. Len(data) |-> Len(data[p])], i - 1)
                       /\ k <= start + PlaneOffset([p \in 1 .. Len(data) |-> Len(data[p])], i)
             IN data[i][k - start - PlaneOffset([p \in 1 .. Len(data) |-> Len(data[p])], i - 1)]
        ELSE buf[k]]

\* Mutant: plane_num is compared as a signed int.
buffer_write_image_signed(buf, queue, cl_buffer_size, offset, data, plane_num, o) ==
    LET sizes == [p \in 1 .. Len(data) |-> Len(data[p])]
        buffer_size == PlaneOffset(sizes, Len(sizes))
        maps == {"clEnqueueMapBuffer"}
        unmaps == maps \cup {"clEnqueueUnmapMemObject"}
    IN
    IF plane_num > MAX_PLANES
    THEN ImgRes(buf, EINVAL, {}, 0, data)
    ELSE IF buffer_size > cl_buffer_size
    THEN ImgRes(buf, EINVAL, {}, 0, data)
    ELSE IF ~MapOk(buf, queue, buffer_size + offset, o)
    THEN ImgRes(buf, AVERROR_EXTERNAL, maps, 0, data)
    ELSE IF o = "unmap_fail"
    THEN ImgRes(CopyIn(buf, offset, data), AVERROR_EXTERNAL, unmaps,
                buffer_size + offset, data)
    ELSE ImgRes(CopyIn(buf, offset, data), OK, unmaps, buffer_size + offset, data)

buffer_write_image(buf, queue, cl_buffer_size, offset, data, plane_num, o) ==
    LET sizes == [p \in 1 .. Len(data) |-> Len(data[p])]
        buffer_size == PlaneOffset(sizes, Len(sizes))
        maps == {"clEnqueueMapBuffer"}
        unmaps == maps \cup {"clEnqueueUnmapMemObject"}
    IN
    IF plane_num < 0 \/ plane_num > MAX_PLANES
    THEN \* (unsigned int)plane_num > 8
         ImgRes(buf, EINVAL, {}, 0, data)
    ELSE IF buffer_size > cl_buffer_size
    THEN ImgRes(buf, EINVAL, {}, 0, data)
    ELSE IF ~MapOk(buf, queue, buffer_size + offset, o)
    THEN ImgRes(buf, AVERROR_EXTERNAL, maps, 0, data)
    ELSE IF o = "unmap_fail"
    THEN ImgRes(CopyIn(buf, offset, data), AVERROR_EXTERNAL, unmaps,
                buffer_size + offset, data)
    ELSE ImgRes(CopyIn(buf, offset, data), OK, unmaps, buffer_size + offset, data)

\* Mutant: every plane is read from the start of the mapping.
buffer_read_image_no_advance(buf, queue, cl_buffer_size, sizes, plane_num, o) ==
    LET buffer_size == PlaneOffset(sizes, Len(sizes))
        maps == {"clEnqueueMapBuffer"}
        unmaps == maps \cup {"clEnqueueUnmapMemObject"}
        out == [i \in 1 .. Len(sizes) |-> [j \in 1 .. sizes[i] |-> buf[j]]]
    IN
    IF plane_num < 0 \/ plane_num > MAX_PLANES
    THEN ImgRes(buf, EINVAL, {}, 0, << >>)
    ELSE IF buffer_size > cl_buffer_size
    THEN ImgRes(buf, EINVAL, {}, 0, << >>)
    ELSE IF ~MapOk(buf, queue, buffer_size, o)
    THEN ImgRes(buf, AVERROR_EXTERNAL, maps, 0, << >>)
    ELSE IF o = "unmap_fail"
    THEN ImgRes(buf, AVERROR_EXTERNAL, unmaps, buffer_size, out)
    ELSE ImgRes(buf, OK, unmaps, buffer_size, out)

\* opencl.c:793-834: the mapping starts at byte 0 of the buffer and the
\* planes are copied out one behind the other from its start.
buffer_read_image(buf, queue, cl_buffer_size, sizes, plane_num, o) ==
    LET buffer_size == PlaneOffset(sizes, Len(sizes))
        maps == {"clEnqueueMapBuffer"}
        unmaps == maps \cup {"clEnqueueUnmapMemObject"}
        out == [i \in 1 .. Len(sizes) |->
                  [j \in 1 .. sizes[i] |-> buf[PlaneOffset(sizes, i - 1) + j]]]
    IN
    IF plane_num < 0 \/ plane_num > MAX_PLANES
    THEN ImgRes(buf, EINVAL, {}, 0, << >>)
    ELSE IF buffer_size > cl_buffer_size
    THEN ImgRes(buf, EINVAL, {}, 0, << >>)
    ELSE IF ~MapOk(buf, queue, buffer_size, o)
    THEN ImgRes(buf, AVERROR_EXTERNAL, maps, 0, << >>)
    ELSE IF o = "unmap_fail"
    THEN ImgRes(buf, AVERROR_EXTERNAL, unmaps, buffer_size, out)
    ELSE ImgRes(buf, OK, unmaps, buffer_size, out)

\* av_opencl_buffer_create: a buffer of BufSize bytes in the context.
BufferCreate(o) ==
    /\ fault = "none"
    /\ cl_buf = NoBuffer
    /\ IF o = "ok" /\ gpu_env.context # "NULL"
       THEN /\ cl_buf' = FreshBuffer
            /\ image_op' = ImageOp("buffer_create", 0, 0, << >>, OK,
                                    {"clCreateBuffer"}, 0, << >>)
       ELSE /\ cl_buf' = NoBuffer
            /\ image_op' = ImageOp("buffer_create", 0, 0, << >>, AVERROR_EXTERNAL,
                                    {"clCreateBuffer"}, 0, << >>)
    /\ image' = NoImage
    /\ UNCHANGED << env_vars, thread_vars, lookup, enumeration >>

\* av_opencl_buffer_release.
BufferRelease ==
    /\ fault = "none"
    /\ cl_buf # NoBuffer
    /\ cl_buf' = NoBuffer
    /\ image_op' = ImageOp("buffer_release", 0, 0, << >>, OK,
                            {"clReleaseMemObject"}, 0, << >>)
    /\ image' = NoImage
    /\ UNCHANGED << env_vars, thread_vars, lookup, enumeration >>

\* av_opencl_buffer_write_image on the buffer, declared with its size.  A
\* buffer is the target of one write in its life; image remembers that
\* write and whether it returned success.
BufferWriteImage(offset, pn, sizes, o) ==
    /\ fault = "none"
    /\ cl_buf # NoBuffer
    /\ ~image.tried
    /\ \E r \in {buffer_write_image(cl_buf, gpu_env.command_queue, Len(cl_buf),
                                      offset, PlaneData(sizes), pn, o)} :
       /\ cl_buf' = r.buf
       /\ image_op' = ImageOp("write_image", offset, pn, sizes, r.ret, r.api,
                               r.mapped, r.planes)
       /\ image' = [offset |-> offset, planes |-> r.planes,
                    valid |-> (r.ret = OK), tried |-> TRUE]
    /\ UNCHANGED << env_vars, thread_vars, lookup, enumeration >>

\* av_opencl_buffer_read_image on the buffer, declared with its size.
BufferReadImage(pn, sizes, o) ==
    /\ fault = "none"
    /\ cl_buf # NoBuffer
    /\ \E r \in {buffer_read_image(cl_buf, gpu_env.command_queue, Len(cl_buf),
                                     sizes, pn, o)} :
       /\ cl_buf' = r.buf
       /\ image_op' = ImageOp("read_image", 0, pn, sizes, r.ret, r.api,
                               r.mapped, r.planes)
    /\ UNCHANGED << env_vars, thread_vars, lookup, enumeration, image >>

\* The buffer helpers are used on an initialised environment: one source
\* registered, one successful self-driven av_opencl_init.
InitImage ==
    /\ InitThreads
    /\ InitUnits
    /\ world \in Worlds
    /\ handles = [h \in Handles |-> EmptyHandle]
    /\ fault = "none"
    /\ outstanding = 1
    /\ \E r \in {opencl_init(register_kernel_code(InitGpuEnv, 1).env,
                               InitOpenclUtils, NoExt, world, "ok")} :
       /\ gpu_env = r.env
       /\ openclutils = r.utils
       /\ last_op = [Call("init", NoExt.name, r.ret, r.site, r.api)
                        EXCEPT !.detail = r.blob]
       /\ submitted = Submit([s \in Sources |-> 0], r.blob)

NextImage ==
    \/ \E o \in BufferOutcomes : BufferCreate(o)
    \/ BufferRelease
    \/ \E off \in Offsets, pn \in PlaneNums, o \in MapOutcomes :
          \E sizes \in SizeArrays(pn) : BufferWriteImage(off, pn, sizes, o)
    \/ \E pn \in PlaneNums, o \in MapOutcomes :
          \E sizes \in SizeArrays(pn) : BufferReadImage(pn, sizes, o)

SpecImage == InitImage /\ [][NextImage]_vars

\* ---------------------------------------------------------------- opencl_errstr
\* opencl.c:112-171; a status code is named by its macro.
opencl_err_msg == <<
    [err_code |-> "CL_DEVICE_NOT_FOUND", err_str |-> "DEVICE NOT FOUND"],
    [err_code |-> "CL_DEVICE_NOT_AVAILABLE", err_str |-> "DEVICE NOT AVAILABLE"],
    [err_code |-> "CL_COMPILER_NOT_AVAILABLE", err_str |-> "COMPILER NOT AVAILABLE"],
    [err_code |-> "CL_MEM_OBJECT_ALLOCATION_FAILURE", err_str |-> "MEM OBJECT ALLOCATION FAILURE"],
    [err_code |-> "CL_OUT_OF_RESOURCES", err_str |-> "OUT OF RESOURCES"],
    [err_code |-> "CL_OUT_OF_HOST_MEMORY", err_str |-> "OUT OF HOST MEMORY"],
    [err_code |-> "CL_PROFILING_INFO_NOT_AVAILABLE", err_str |-> "PROFILING INFO NOT AVAILABLE"],
    [err_code |-> "CL_MEM_COPY_OVERLAP", err_str |-> "MEM COPY OVERLAP"],
    [err_code |-> "CL_IMAGE_FORMAT_MISMATCH", err_str |-> "IMAGE FORMAT MISMATCH"],
    [err_code |-> "CL_IMAGE_FORMAT_NOT_SUPPORTED", err_str |-> "IMAGE FORMAT NOT_SUPPORTED"],
    [err_code |-> "CL_BUILD_PROGRAM_FAILURE", err_str |-> "BUILD PROGRAM FAILURE"],
    [err_code |-> "CL_MAP_FAILURE", err_str |-> "MAP FAILURE"],
    [err_code |-> "CL_MISALIGNED_SUB_BUFFER_OFFSET", err_str |-> "MISALIGNED SUB BUFFER OFFSET"],
    [err_code |-> "CL_EXEC_STATUS_ERROR_FOR_EVENTS_IN_WAIT_LIST", err_str |-> "EXEC STATUS ERROR FOR EVENTS IN WAIT LIST"],
    [err_code |-> "CL_COMPILE_PROGRAM_FAILURE", err_str |-> "COMPILE PROGRAM FAILURE"],
    [err_code |-> "CL_LINKER_NOT_AVAILABLE", err_str |-> "LINKER NOT AVAILABLE"],
    [err_code |-> "CL_LINK_PROGRAM_FAILURE", err_str |-> "LINK PROGRAM FAILURE"],
    [err_code |-> "CL_DEVICE_PARTITION_FAILED", err_str |-> "DEVICE PARTITION FAILED"],
    [err_code |-> "CL_KERNEL_ARG_INFO_NOT_AVAILABLE", err_str |-> "KERNEL ARG INFO NOT AVAILABLE"],
    [err_code |-> "CL_INVALID_VALUE", err_str |-> "INVALID VALUE"],
    [err_code |-> "CL_INVALID_DEVICE_TYPE", err_str |-> "INVALID DEVICE TYPE"],
    [err_code |-> "CL_INVALID_PLATFORM", err_str |-> "INVALID PLATFORM"],
    [err_code |-> "CL_INVALID_DEVICE", err_str |-> "INVALID DEVICE"],
    [err_code |-> "CL_INVALID_CONTEXT", err_str |-> "INVALID CONTEXT"],
    [err_code |-> "CL_INVALID_QUEUE_PROPERTIES", err_str |-> "INVALID QUEUE PROPERTIES"],
    [err_code |-> "CL_INVALID_COMMAND_QUEUE", err_str |-> "INVALID COMMAND QUEUE"],
    [err_code |-> "CL_INVALID_HOST_PTR", err_str |-> "INVALID HOST PTR"],
    [err_code |-> "CL_INVALID_MEM_OBJECT", err_str |-> "INVALID MEM OBJECT"],
    [err_code |-> "CL_INVALID_IMAGE_FORMAT_DESCRIPTOR", err_str |-> "INVALID IMAGE FORMAT DESCRIPTOR"],
    [err_code |-> "CL_INVALID_IMAGE_SIZE", err_str |-> "INVALID IMAGE SIZE"],
    [err_code |-> "CL_INVALID_SAMPLER", err_str |-> "INVALID SAMPLER"],
    [err_code |-> "CL_INVALID_BINARY", err_str |-> "INVALID BINARY"],
    [err_code |-> "CL_INVALID_BUILD_OPTIONS", err_str |-> "INVALID BUILD OPTIONS"],
    [err_code |-> "CL_INVALID_PROGRAM", err_str |-> "INVALID PROGRAM"],
    [err_code |-> "CL_INVALID_PROGRAM_EXECUTABLE", err_str |-> "INVALID PROGRAM EXECUTABLE"],
    [err_code |-> "CL_INVALID_KERNEL_NAME", err_str |-> "INVALID KERNEL NAME"],
    [err_code |-> "CL_INVALID_KERNEL_DEFINITION", err_str |-> "INVALID KERNEL DEFINITION"],
    [err_code |-> "CL_INVALID_KERNEL", err_str |-> "INVALID KERNEL"],
    [err_code |-> "CL_INVALID_ARG_INDEX", err_str |-> "INVALID ARG INDEX"],
    [err_code |-> "CL_INVALID_ARG_VALUE", err_str |-> "INVALID ARG VALUE"],
    [err_code |-> "CL_INVALID_ARG_SIZE", err_str |-> "INVALID ARG_SIZE"],
    [err_code |-> "CL_INVALID_KERNEL_ARGS", err_str |-> "INVALID KERNEL ARGS"],
    [err_code |-> "CL_INVALID_WORK_DIMENSION", err_str |-> "INVALID WORK DIMENSION"],
    [err_code |-> "CL_INVALID_WORK_GROUP_SIZE", err_str |-> "INVALID WORK GROUP SIZE"],
    [err_code |-> "CL_INVALID_WORK_ITEM_SIZE", err_str |-> "INVALID WORK ITEM SIZE"],
    [err_code |-> "CL_INVALID_GLOBAL_OFFSET", err_str |-> "INVALID GLOBAL OFFSET"],
    [err_code |-> "CL_INVALID_EVENT_WAIT_LIST", err_str |-> "INVALID EVENT WAIT LIST"],
    [err_code |-> "CL_INVALID_EVENT", err_str |-> "INVALID EVENT"],
    [err_code |-> "CL_INVALID_OPERATION", err_str |-> "INVALID OPERATION"],
    [err_code |-> "CL_INVALID_GL_OBJECT", err_str |-> "INVALID GL OBJECT"],
    [err_code |-> "CL_INVALID_BUFFER_SIZE", err_str |-> "INVALID BUFFER SIZE"],
    [err_code |-> "CL_INVALID_MIP_LEVEL", err_str |-> "INVALID MIP LEVEL"],
    [err_code |-> "CL_INVALID_GLOBAL_WORK_SIZE", err_str |-> "INVALID GLOBAL WORK SIZE"],
    [err_code |-> "CL_INVALID_PROPERTY", err_str |-> "INVALID PROPERTY"],
    [err_code |-> "CL_INVALID_IMAGE_DESCRIPTOR", err_str |-> "INVALID IMAGE DESCRIPTOR"],
    [err_code |-> "CL_INVALID_COMPILER_OPTIONS", err_str |-> "INVALID COMPILER OPTIONS"],
    [err_code |-> "CL_INVALID_LINKER_OPTIONS", err_str |-> "INVALID LINKER OPTIONS"],
    [err_code |-> "CL_INVALID_DEVICE_PARTITION_COUNT", err_str |-> "INVALID DEVICE PARTITION COUNT"] >>

\* sizeof(OpenclErrorMsg): an int and a pointer (LP64).
SizeofOpenclErrorMsg == 16
\* sizeof(opencl_err_msg), the bound of the loop of opencl.c:176.
SizeofErrMsgTable == Len(opencl_err_msg) * SizeofOpenclErrorMsg

\* The status codes the callers pass: those of the table, and one the
\* table does not list.
ListedCodes == { opencl_err_msg[k].err_code : k \in 1 .. Len(opencl_err_msg) }
Statuses == ListedCodes \cup {"CL_PLATFORM_NOT_FOUND_KHR"}

\* What a read of opencl_err_msg[i] past the last entry makes of the call:
\* the bytes found never match and the loop ends with "unknown error", or
\* they match and a stray pointer is returned, or the read faults.
PastTheEnd == {"unknown error", "STRAY POINTER", "SEGV"}

ErrstrCall(status) ==
    /\ fault = "none"
    /\ ~lookup.running
    /\ lookup' = [status |-> status, i |-> 0, result |-> "", running |-> TRUE]
    /\ UNCHANGED << env_vars, thread_vars, enumeration, cl_buf, image_op, image >>

\* One iteration of the loop of opencl.c:176-179, or the return behind it.
ErrstrStep ==
    /\ fault = "none"
    /\ lookup.running
    /\ IF lookup.i >= SizeofErrMsgTable
       THEN /\ lookup' = [lookup EXCEPT !.result = "unknown error", !.running = FALSE]
            /\ fault' = fault
       ELSE IF lookup.i >= Len(opencl_err_msg)
       THEN \E r \in PastTheEnd :
               /\ lookup' = [lookup EXCEPT !.result = r, !.running = FALSE]
               /\ fault' = "oob_read"
       ELSE IF opencl_err_msg[lookup.i + 1].err_code = lookup.status
       THEN /\ lookup' = [lookup EXCEPT !.result = opencl_err_msg[lookup.i + 1].err_str,
                                        !.running = FALSE]
            /\ fault' = fault
       ELSE /\ lookup' = [lookup EXCEPT !.i = @ + 1]
            /\ fault' = fault
    /\ UNCHANGED << gpu_env, openclutils, handles, world, last_op, outstanding,
                    submitted, enumeration, cl_buf, image_op, image, thread_vars >>

NextErrstr ==
    \/ \E st \in Statuses : ErrstrCall(st)
    \/ ErrstrStep

SpecErrstr == Init /\ [][NextErrstr]_vars

\* ------------------------------------------------ get_device_list, loop by loop
\* opencl.c:104: the device classes in the order they are queried.
DeviceTypes == << "GPU", "CPU", "DEFAULT" >>

\* A platform is described by the devices of each class, in the order the
\* API lists them; a device is described by whether its name query succeeds.
ClassSeqs(n) == UNION { [1 .. m -> BOOLEAN] : m \in 0 .. n }
EnumPlatforms == [GPU : ClassSeqs(MaxClassDevs), CPU : ClassSeqs(1), DEFAULT : ClassSeqs(1)]
Machines == { << p >> : p \in EnumPlatforms }
            \cup { << p, q >> : p \in {r \in EnumPlatforms : r.DEFAULT = << >>},
                                q \in EnumPlatforms }
\* The cl_device_id of device k of class j of platform i.
DeviceId(i, j, k) == 100 * i + 10 * j + k

\* The <<platform, class>> pairs whose second clGetDeviceIDs call fails
\* (opencl.c:263-270): at most one per enumeration, on a class with devices.
Skips(m) ==
    {{}} \cup { {x} : x \in { y \in (1 .. Len(m)) \X (1 .. Len(DeviceTypes)) :
                                    m[y[1]][DeviceTypes[y[2]]] # << >> } }

\* Outcomes of the allocations inside get_device_list.
EnumOutcomes == {"ok", "platform_alloc_fail"}

NullNode == << >>

\* Mutant: device_num is advanced also when the name query failed.
FillSlots_counting_failed(node, names, i, j, k) ==
    [node EXCEPT
       !.device_node = [s \in DOMAIN @ |->
                          IF s >= node.device_num /\ s < node.device_num + Len(names)
                          THEN [device_id |-> DeviceId(i, j, s - node.device_num + 1),
                                device_type |-> DeviceTypes[j]]
                          ELSE @[s]],
       !.device_num = @ + Len(names)]

\* opencl.c:271-290, the loop over the devices of one class from device k on:
\* the node is stored at device_node[device_num]; device_num is advanced
\* only when the name query succeeds, so the next device overwrites the slot
\* of a device whose name query failed.
RECURSIVE FillSlots(_, _, _, _, _)
FillSlots(node, names, i, j, k) ==
    IF k > Len(names) THEN node
    ELSE Bind([node EXCEPT !.device_node[node.device_num] =
                              [device_id |-> DeviceId(i, j, k),
                               device_type |-> DeviceTypes[j]]], LAMBDA n1 :
         FillSlots(IF names[k] THEN [n1 EXCEPT !.device_num = @ + 1] ELSE n1,
                   names, i, j, k + 1))

\* opencl.c:256-293, the loop over the classes from class j on: a class
\* without devices, or whose id query fails, is passed over.
RECURSIVE FillClasses(_, _, _, _, _)
FillClasses(node, p, i, j, skipped) ==
    IF j > Len(DeviceTypes) THEN node
    ELSE FillClasses(IF p[DeviceTypes[j]] = << >> \/ << i, j >> \in skipped
                     THEN node
                     ELSE FillSlots(node, p[DeviceTypes[j]], i, j, 1),
                     p, i, j + 1, skipped)

\* opencl.c:236-255: the platform node, zeroed, with room for every device
\* the count queries announced.
FreshNode(p, i) ==
    [platform_id |-> i, device_num |-> 0,
     device_node |-> [s \in 0 .. (Len(p.GPU) + Len(p.CPU) + Len(p.DEFAULT) - 1)
                        |-> NullNode]]

\* get_device_list on an empty list, on machine m.
enumerate_devices(m, skipped, o) ==
    IF o = "platform_alloc_fail"
    THEN [list |-> EmptyDeviceList, ret |-> ENOMEM]
    ELSE [list |-> [platform_num |-> Len(m),
                    platform_node |-> [i \in 1 .. Len(m) |->
                        FillClasses(FreshNode(m[i], i), m[i], i, 1, skipped)]],
          ret |-> OK]

\* av_opencl_get_device_list: get_device_list on a fresh list handed to the
\* caller.
GetDeviceList(m, skipped, o) ==
    /\ fault = "none"
    /\ enumeration = NoEnumeration
    /\ \E r \in {enumerate_devices(m, skipped, o)} :
          enumeration' = [machine |-> m, skipped |-> skipped, ret |-> r.ret,
                          list |-> r.list]
    /\ UNCHANGED << env_vars, thread_vars, lookup, cl_buf, image_op, image >>

\* av_opencl_free_device_list: the caller gives the list back.
FreeDeviceList ==
    /\ fault = "none"
    /\ enumeration # NoEnumeration
    /\ enumeration' = NoEnumeration
    /\ UNCHANGED << env_vars, thread_vars, lookup, cl_buf, image_op, image >>

\* The caller holds at most one list at a time.
NextEnum ==
    \/ /\ enumeration = NoEnumeration
       /\ \E m \in Machines, o \in EnumOutcomes :
             \E skipped \in Skips(m) : GetDeviceList(m, skipped, o)
    \/ FreeDeviceList

SpecEnum == Init /\ [][NextEnum]_vars

\* ======================================================================
\* Properties
\* ======================================================================
IsCall(op) == last_op'.op = op
KernelCodeCount(env) == Len(env.kernel_code)
DiscoveryCalls == {"clGetPlatformIDs", "clCreateContextFromType", "clCreateCommandQueue"}

\* C1: in a self-owned environment an Uninit call that is not the last of the
\* outstanding successful Init calls (more than one still unmatched), or that
\* is made while kernels are live, releases neither the programs nor the
\* command queue nor the context, also when it drives init_count to 0.
C1_NoEarlyRelease ==
    [][ (IsCall("uninit") /\ gpu_env.is_user_created = 0
         /\ (outstanding > 1 \/ gpu_env.kernel_count > 0))
        => /\ gpu_env'.programs = gpu_env.programs
           /\ gpu_env'.command_queue = gpu_env.command_queue
           /\ gpu_env'.context = gpu_env.context
           /\ last_op'.api \cap ReleaseCalls = {} ]_vars

\* An Uninit drove the count of a self-owned environment to 0 while a kernel
\* was live, and the context, queue and program are still there.
C1_Witness ==
    /\ last_op.op = "uninit"
    /\ gpu_env.is_user_created = 0
    /\ gpu_env.init_count = 0
    /\ gpu_env.kernel_count > 0
    /\ gpu_env.context = "own_ctx"
    /\ gpu_env.command_queue = "own_q"
    /\ gpu_env.program_count > 0
    /\ gpu_env.programs[0] # NullProgram

\* C2: init_count is never negative.
C2_InitCountNonNegative == gpu_env.init_count >= 0

\* C3: when the environment is external, an Uninit call changes neither the
\* context, the command queue, the programs nor the device list and makes no
\* release call, at any reference count and any live-kernel count.
C3_ExternalNeverReleased ==
    [][ (IsCall("uninit") /\ gpu_env.is_user_created = 1)
        => /\ gpu_env'.context = gpu_env.context
           /\ gpu_env'.command_queue = gpu_env.command_queue
           /\ gpu_env'.programs = gpu_env.programs
           /\ gpu_env'.device_list = gpu_env.device_list
           /\ last_op'.api = {} ]_vars

\* The last Uninit of an external environment with no kernel live: count 0,
\* the adopted context and queue and the compiled program are still held.
C3_Witness ==
    /\ last_op.op = "uninit"
    /\ gpu_env.is_user_created = 1
    /\ gpu_env.init_count = 0
    /\ gpu_env.kernel_count = 0
    /\ gpu_env.context = ExtA.context
    /\ gpu_env.command_queue = ExtA.command_queue
    /\ gpu_env.program_count > 0
    /\ gpu_env.programs[0] # NullProgram

\* C4: registering a source that is already in the table returns success and
\* leaves the table size unchanged, also when the table is full.
C4_DuplicateRegistrationSucceeds ==
    [][ (IsCall("register")
         /\ \E i \in 1 .. KernelCodeCount(gpu_env) :
               ToString(gpu_env.kernel_code[i].kernel_string) = last_op'.arg)
        => /\ last_op'.ret = OK
           /\ KernelCodeCount(gpu_env') = KernelCodeCount(gpu_env) ]_vars

\* C5: an entry marked compiled is never changed again, and no source is
\* part of more than one blob handed to the compiler.
C5_CompiledAtMostOnce ==
    [][ /\ \A i \in 1 .. KernelCodeCount(gpu_env) :
              gpu_env.kernel_code[i].is_compiled = 1
              => /\ KernelCodeCount(gpu_env') >= i
                 /\ gpu_env'.kernel_code[i] = gpu_env.kernel_code[i]
        /\ \A s \in Sources : submitted'[s] <= 1 ]_vars

\* A source went into a blob whose compilation failed, and a later first
\* Init created a context and succeeded without submitting it again.
C5_Witness ==
    /\ last_op.op = "init"
    /\ last_op.ret = OK
    /\ last_op.api \cap {"clCreateProgramWithSource"} = {}
    /\ "clCreateContextFromType" \in last_op.api
    /\ gpu_env.program_count = 0
    /\ \E s \in Sources : submitted[s] = 1
    /\ \A i \in 1 .. KernelCodeCount(gpu_env) : gpu_env.kernel_code[i].is_compiled = 1

\* C6: the source table and the program table never hold more than
\* MAX_KERNEL_CODE_NUM entries, no compile pass writes past the program
\* array, and the live-kernel count never exceeds MAX_KERNEL_NUM.
C6_TablesBounded ==
    /\ KernelCodeCount(gpu_env) <= MAX_KERNEL_CODE_NUM
    /\ gpu_env.program_count <= MAX_KERNEL_CODE_NUM
    /\ gpu_env.kernel_count <= MAX_KERNEL_NUM
    /\ fault # "oob_write"

\* All three tables are full.
C6_Witness ==
    /\ KernelCodeCount(gpu_env) = MAX_KERNEL_CODE_NUM
    /\ gpu_env.program_count = MAX_KERNEL_CODE_NUM
    /\ gpu_env.kernel_count = MAX_KERNEL_NUM

\* C7: a distinct source is rejected, with the table unchanged, when the
\* table is full, and CreateKernel on an empty handle is rejected, with the
\* count and the handles unchanged, when MAX_KERNEL_NUM kernels are live;
\* below the limits neither call is rejected for capacity.
C7_CapacityLimits ==
    [][ /\ (IsCall("register") /\ KernelCodeCount(gpu_env) >= MAX_KERNEL_CODE_NUM
            /\ \A i \in 1 .. KernelCodeCount(gpu_env) :
                  ToString(gpu_env.kernel_code[i].kernel_string) # last_op'.arg)
           => (last_op'.ret # OK /\ gpu_env'.kernel_code = gpu_env.kernel_code)
        /\ (IsCall("register") /\ KernelCodeCount(gpu_env) < MAX_KERNEL_CODE_NUM)
           => (last_op'.ret = OK /\ last_op'.site # "code_limit")
        /\ (IsCall("create_kernel") /\ gpu_env.kernel_count >= MAX_KERNEL_NUM
            /\ \E h \in Handles : ToString(h) = last_op'.arg
                                  /\ handles[h].kernel = NullKernel)
           => /\ last_op'.ret # OK
              /\ gpu_env'.kernel_count = gpu_env.kernel_count
              /\ handles' = handles
        /\ (IsCall("create_kernel") /\ gpu_env.kernel_count < MAX_KERNEL_NUM)
           => last_op'.site # "kernel_limit" ]_vars

\* A CreateKernel was turned away at the kernel limit while the source
\* table is full as well.
C7_Witness ==
    /\ last_op.op = "create_kernel"
    /\ last_op.site = "kernel_limit"
    /\ last_op.ret = EINVAL
    /\ gpu_env.kernel_count = MAX_KERNEL_NUM
    /\ KernelCodeCount(gpu_env) = MAX_KERNEL_CODE_NUM

\* C8: a first Init (init_count 0) that fails leaves the environment
\* uninitialised: init_count stays 0, the provenance flag is not set to
\* external, and no context or queue the call created or adopted is held.
C8_FailedInitLeavesNothing ==
    [][ (IsCall("init") /\ gpu_env.init_count = 0 /\ last_op'.ret # OK)
        => /\ gpu_env'.init_count = 0
           /\ gpu_env'.is_user_created = gpu_env.is_user_created
           /\ "clCreateContextFromType" \in last_op'.api => gpu_env'.context = "NULL"
           /\ "clCreateCommandQueue" \in last_op'.api => gpu_env'.command_queue = "NULL"
           /\ (last_op'.arg = ExtA.name /\ gpu_env.is_user_created = 0)
              => /\ gpu_env'.context # ExtA.context
                 /\ gpu_env'.command_queue # ExtA.command_queue ]_vars

\* C9: Init with an empty source registry fails with EINVAL without device
\* enumeration, context creation or command-queue creation.
C9_EmptyRegistryRejectedFirst ==
    [][ (IsCall("init") /\ KernelCodeCount(gpu_env) = 0 /\ fault' = "none")
        => /\ last_op'.ret = EINVAL
           /\ last_op'.api \cap DiscoveryCalls = {} ]_vars

\* C10: a successful Init made at init_count 0 takes its provenance from its
\* argument: with a descriptor the environment holds the descriptor's
\* platform, context, queue, device and class and is external; without one
\* discovery ran and the environment is self-owned with its own context and
\* queue.
C10_ProvenanceFollowsArgument ==
    [][ (IsCall("init") /\ gpu_env.init_count = 0 /\ last_op'.ret = OK
         /\ fault' = "none")
        => IF last_op'.arg = ExtA.name
           THEN /\ gpu_env'.is_user_created = 1
                /\ gpu_env'.platform_id = ExtA.platform_id
                /\ gpu_env'.context = ExtA.context
                /\ gpu_env'.command_queue = ExtA.command_queue
                /\ gpu_env'.device_id = ExtA.device_id
                /\ gpu_env'.device_type = ExtA.device_type
           ELSE /\ gpu_env'.is_user_created = 0
                /\ gpu_env'.context = "own_ctx"
                /\ gpu_env'.command_queue = "own_q"
                /\ {"clCreateContextFromType", "clCreateCommandQueue"}
                      \subseteq last_op'.api ]_vars

\* ---------------------------------------------------------------- C11
\* Devices of platform p (0-based) of the machine that enter the list.
ListedDevices(p) == Len(SelectSeq(world[p + 1], NameOk))
\* The platform a self-driven Init selects for the configured index cp.
SelectedPlatforms(cp) ==
    IF cp >= 0 THEN { p \in {cp} : p < Len(world) /\ ListedDevices(p) > 0 }
    ELSE { p \in 0 .. (Len(world) - 1) :
              /\ ListedDevices(p) > 0
              /\ \A q \in 0 .. (p - 1) : ListedDevices(q) = 0 }
BadIndex(cp, cd) ==
    \/ cp >= Len(world)
    \/ cp >= 0 /\ cp < Len(world) /\ ListedDevices(cp) = 0
    \/ cd >= 0 /\ \E p \in SelectedPlatforms(cp) : cd >= ListedDevices(p)
EnumerationFailed == last_op'.site \in {"get_device_list", "free_device_list"}

\* C11: a self-driven first Init (no descriptor, init_count 0, environment
\* not external) whose enumeration does not fail and whose configured
\* platform_idx is not below the number of platforms, or names a platform
\* without devices, or whose configured device_idx is not below the device
\* count of the selected platform, returns EINVAL, creates no context and
\* no queue and leaves init_count at 0.
C11_BadIndexIsValidationError ==
    [][ (IsCall("init") /\ last_op'.arg = NoExt.name
         /\ gpu_env.init_count = 0 /\ gpu_env.is_user_created = 0
         /\ ~EnumerationFailed
         /\ BadIndex(openclutils'.platform_idx, openclutils'.device_idx))
        => /\ last_op'.ret = EINVAL
           /\ fault' = "none"
           /\ last_op'.api \cap {"clCreateContextFromType", "clCreateCommandQueue"} = {}
           /\ gpu_env'.context = gpu_env.context
           /\ gpu_env'.command_queue = gpu_env.command_queue
           /\ gpu_env'.init_count = 0 ]_vars

\* ---------------------------------------------------------------- C12
\* The call gets as far as the search of the program table.
ReachesSearch(h) ==
    /\ ~NameTooLong(last_op'.detail[1])
    /\ handles[h].kernel = NullKernel
    /\ gpu_env.kernel_count < MAX_KERNEL_NUM
    /\ gpu_env.program_count > 0
Exposing(name) ==
    { i \in 0 .. (gpu_env.program_count - 1) : Exposes(gpu_env.programs[i], name) }

\* C12: a CreateKernel that searches the program table binds the handle to
\* the kernel of the lowest-index program exposing the name and counts it;
\* when no program exposes the name it returns the external-API error,
\* leaves the handle empty and the live-kernel count unchanged.
C12_FirstMatchWins ==
    [][ \A h \in Handles :
          (IsCall("create_kernel") /\ last_op'.arg = ToString(h) /\ ReachesSearch(h))
          => IF Exposing(last_op'.detail[1]) = {}
             THEN /\ last_op'.ret = AVERROR_EXTERNAL
                  /\ handles'[h].kernel = NullKernel
                  /\ gpu_env'.kernel_count = gpu_env.kernel_count
             ELSE /\ last_op'.ret = OK
                  /\ handles'[h].kernel[2] = last_op'.detail[1]
                  /\ handles'[h].kernel[1] \in Exposing(last_op'.detail[1])
                  /\ \A j \in Exposing(last_op'.detail[1]) : handles'[h].kernel[1] <= j
                  /\ gpu_env'.kernel_count = gpu_env.kernel_count + 1 ]_vars

\* Two programs expose the name and the handle was bound to the kernel of
\* the one in slot 0.
C12_Witness ==
    /\ last_op.op = "create_kernel"
    /\ last_op.ret = OK
    /\ gpu_env.program_count = 2
    /\ Exposes(gpu_env.programs[0], "kdup")
    /\ Exposes(gpu_env.programs[1], "kdup")
    /\ \E h \in Handles : /\ last_op.arg = ToString(h)
                          /\ handles[h].kernel = << 0, "kdup" >>

\* ---------------------------------------------------------------- C16
\* C16: an Init whose device enumeration fails leaves the cached device list
\* released (platform_num 0, no platform entries) without faulting, and after
\* every Init platform_num equals the number of platform entries.
C16_FailedEnumerationReleasesList ==
    [][ IsCall("init")
        => /\ EnumerationFailed
              => /\ gpu_env'.device_list = EmptyDeviceList
                 /\ fault' = "none"
           /\ gpu_env'.device_list.platform_num
                 = Len(gpu_env'.device_list.platform_node) ]_vars

\* ---------------------------------------------------------------- C18
\* The programs below program_count, the queue and the context are as before.
ResourcesKept ==
    /\ gpu_env'.programs = gpu_env.programs
    /\ gpu_env'.command_queue = gpu_env.command_queue
    /\ gpu_env'.context = gpu_env.context
    /\ last_op'.api \cap ReleaseCalls = {}

\* C18: in a self-owned environment an Uninit that brings init_count to 0
\* while kernels are live releases nothing; no ReleaseKernel call releases a
\* program, the queue or the context, whatever it leaves of the live-kernel
\* count; a release call is made only by an Uninit that finds no kernel
\* live, and an Uninit that finds no kernel live and the count at or below
\* 1 does release the queue, the context and every compiled program.
C18_TeardownOnlyByUninit ==
    [][ /\ (IsCall("uninit") /\ gpu_env.is_user_created = 0
             /\ gpu_env.init_count = 1 /\ gpu_env.kernel_count > 0) => ResourcesKept
        /\ IsCall("release_kernel") => ResourcesKept
        /\ last_op'.api \cap ReleaseCalls # {}
              => (IsCall("uninit") /\ gpu_env.kernel_count = 0)
        /\ (IsCall("uninit") /\ gpu_env.is_user_created = 0
             /\ gpu_env.init_count <= 1 /\ gpu_env.kernel_count = 0)
           => /\ gpu_env'.command_queue = "NULL"
              /\ gpu_env'.context = "NULL"
              /\ \A i \in 0 .. (gpu_env.program_count - 1) :
                     gpu_env'.programs[i] = NullProgram
              /\ (gpu_env.context # "NULL") => "clReleaseContext" \in last_op'.api ]_vars

\* The last kernel was released after an Uninit had brought the count to 0:
\* no kernel is live, no Init is outstanding, and the context, the queue and
\* the compiled program are still held.
C18_Witness ==
    /\ last_op.op = "release_kernel"
    /\ last_op.site = "released"
    /\ gpu_env.is_user_created = 0
    /\ gpu_env.kernel_count = 0
    /\ gpu_env.init_count = 0
    /\ outstanding = 0
    /\ gpu_env.context = "own_ctx"
    /\ gpu_env.command_queue = "own_q"
    /\ gpu_env.program_count > 0
    /\ gpu_env.programs[0] # NullProgram

\* ---------------------------------------------------------------- C19
TeardownRan == IsCall("uninit") /\ "free_device_list" \in last_op'.api
Rank(c) == CASE c = "clReleaseProgram" -> 1
             [] c = "clReleaseCommandQueue" -> 2
             [] c = "clReleaseContext" -> 3
             [] OTHER -> 4
Released(c, i) ==
    \E k \in 1 .. Len(last_op'.detail) :
        last_op'.detail[k].call = c /\ last_op'.detail[k].slot = i

\* C19: an Uninit that tears down releases every compiled program in table
\* order, then the queue, then the context, then the device list, whatever
\* status a release reports, and afterwards every program slot, the queue
\* and the context are null and the device list is empty.
C19_TeardownOrderAndResult ==
    [][ TeardownRan
        => /\ \A j, k \in 1 .. Len(last_op'.detail) :
                 j < k => /\ Rank(last_op'.detail[j].call) <= Rank(last_op'.detail[k].call)
                          /\ last_op'.detail[j].call = last_op'.detail[k].call
                                => last_op'.detail[j].slot < last_op'.detail[k].slot
           /\ \A i \in 0 .. (gpu_env.program_count - 1) :
                 gpu_env.programs[i] # NullProgram => Released("clReleaseProgram", i)
           /\ gpu_env.command_queue # "NULL" => Released("clReleaseCommandQueue", -1)
           /\ gpu_env.context # "NULL" => Released("clReleaseContext", -1)
           /\ Released("free_device_list", -1)
           /\ \A i \in DOMAIN gpu_env'.programs : gpu_env'.programs[i] = NullProgram
           /\ gpu_env'.command_queue = "NULL"
           /\ gpu_env'.context = "NULL"
           /\ gpu_env'.device_list = EmptyDeviceList
           /\ fault' = "none" ]_vars

\* ---------------------------------------------------------------- C20
\* An Init call that got as far as the compile pass.
CompileSites == {"init", "no_kernel_code", "malloc", "create_program",
                 "null_program", "build_program"}
PassRan == IsCall("init") /\ last_op'.site \in CompileSites
Uncompiled(kc) == { i \in 1 .. Len(kc) : kc[i].is_compiled = 0 }
IsUncompiled(entry) == entry.is_compiled = 0
\* The uncompiled entries' sources, in registration order.
PendingSources(kc) ==
    [k \in 1 .. Len(SelectSeq(kc, IsUncompiled)) |->
        SelectSeq(kc, IsUncompiled)[k].kernel_string]
AllMarked(kc1, kc0) ==
    /\ Len(kc1) = Len(kc0)
    /\ \A i \in 1 .. Len(kc0) :
          /\ kc1[i].kernel_string = kc0[i].kernel_string
          /\ kc1[i].is_compiled = 1
PassIsNoOp ==
    /\ last_op'.site \in {"init", "no_kernel_code"}
    /\ "clCreateProgramWithSource" \notin last_op'.api
    /\ last_op'.detail = << >>
    /\ gpu_env'.kernel_code = gpu_env.kernel_code
    /\ gpu_env'.programs = gpu_env.programs
    /\ gpu_env'.program_count = gpu_env.program_count
PassSubmitsPending ==
    /\ "clCreateProgramWithSource" \in last_op'.api
    /\ last_op'.detail = PendingSources(gpu_env.kernel_code)
    /\ AllMarked(gpu_env'.kernel_code, gpu_env.kernel_code)
    /\ \A i \in DOMAIN gpu_env.programs :
          i # gpu_env.program_count => gpu_env'.programs[i] = gpu_env.programs[i]
    /\ IF last_op'.site \in {"init", "no_kernel_code"}
       THEN /\ gpu_env'.program_count = gpu_env.program_count + 1
            /\ gpu_env'.programs[gpu_env.program_count]
                  = PendingSources(gpu_env.kernel_code)
       ELSE gpu_env'.program_count = gpu_env.program_count

\* C20 as claimed: every compile pass with an uncompiled entry submits one
\* blob made of exactly the uncompiled entries in registration order, marks
\* them compiled and on success appends one program; a pass without an
\* uncompiled entry is a no-op that succeeds.
C20_PassSubmitsUncompiled ==
    [][ (PassRan /\ fault' = "none")
        => IF Uncompiled(gpu_env.kernel_code) = {}
           THEN PassIsNoOp ELSE PassSubmitsPending ]_vars

\* C20 amended: the pass is the no-op also when every uncompiled entry is
\* the empty string (those entries stay uncompiled), and a pass whose blob
\* cannot be allocated returns ENOMEM and changes neither table; every
\* other pass submits one blob made of exactly the uncompiled entries in
\* registration order, marks them compiled and on success appends one
\* program.
C20_PassSubmitsNonEmpty ==
    [][ (PassRan /\ fault' = "none")
        => IF \A i \in Uncompiled(gpu_env.kernel_code) :
                 SrcLen(gpu_env.kernel_code[i].kernel_string) = 0
           THEN PassIsNoOp
           ELSE IF last_op'.site = "malloc"
           THEN /\ last_op'.ret = ENOMEM
                /\ last_op'.api \cap {"clCreateProgramWithSource"} = {}
                /\ gpu_env'.kernel_code = gpu_env.kernel_code
                /\ gpu_env'.programs = gpu_env.programs
                /\ gpu_env'.program_count = gpu_env.program_count
           ELSE PassSubmitsPending ]_vars

\* A pass found one entry compiled and one not, submitted only the second
\* and appended its program behind the first.
C20_Witness ==
    /\ last_op.op = "init"
    /\ last_op.ret = OK
    /\ last_op.detail = << 2 >>
    /\ KernelCodeCount(gpu_env) = 2
    /\ gpu_env.kernel_code[1].kernel_string = 1
    /\ gpu_env.program_count = 2
    /\ gpu_env.programs[0] = << 1 >>
    /\ gpu_env.programs[1] = << 2 >>

\* ---------------------------------------------------------------- C17
\* C17: a finished opencl_errstr call returned the string of the first table
\* entry that lists its status code, or "unknown error" when no entry lists
\* it, and no call reads an entry past the end of the table.
C17_ErrstrStaysInTable ==
    /\ fault # "oob_read"
    /\ (~lookup.running /\ lookup.status # "")
       => IF lookup.status \in ListedCodes
          THEN \E k \in 1 .. Len(opencl_err_msg) :
                  /\ opencl_err_msg[k].err_code = lookup.status
                  /\ opencl_err_msg[k].err_str = lookup.result
                  /\ \A j \in 1 .. (k - 1) : opencl_err_msg[j].err_code # lookup.status
          ELSE lookup.result = "unknown error"

\* ---------------------------------------------------------------- C14
RECURSIVE Total(_)
Total(sizes) == IF sizes = << >> THEN 0 ELSE Head(sizes) + Total(Tail(sizes))

\* C14: a write whose offset plus the sum of its plane sizes exceeds the
\* declared size of the buffer returns EINVAL without an API call and leaves
\* the buffer as it was, and a write that succeeds maps no byte beyond the
\* declared size.
C14_WriteRejectsOverrun ==
    [][ image_op'.op = "write_image"
        => /\ image_op'.offset + Total(image_op'.plane_size) > Len(cl_buf)
              => /\ image_op'.ret = EINVAL
                 /\ image_op'.api = {}
                 /\ cl_buf' = cl_buf
           /\ image_op'.ret = OK => image_op'.mapped <= Len(cl_buf) ]_vars

\* ---------------------------------------------------------------- C15
\* A read that succeeded, with the plane sizes of the image written before.
ReadsBackImage ==
    /\ image_op'.op = "read_image"
    /\ image_op'.ret = OK
    /\ image.valid
    /\ image_op'.plane_size = [p \in 1 .. Len(image.planes) |-> Len(image.planes[p])]

\* C15 as claimed: a read with the plane sizes of the preceding successful
\* write returns, plane by plane, the bytes that were written, whatever the
\* offset of the write.
C15_RoundTrip ==
    [][ ReadsBackImage => image_op'.planes = image.planes ]_vars

\* C15 amended: the same for a write at offset 0.
C15_RoundTripAtOffsetZero ==
    [][ (ReadsBackImage /\ image.offset = 0) => image_op'.planes = image.planes ]_vars

\* Two non-empty planes written at offset 0 were read back.
C15_Witness ==
    /\ image_op.op = "read_image"
    /\ image_op.ret = OK
    /\ image.valid
    /\ image.offset = 0
    /\ Len(image.planes) = 2
    /\ Len(image.planes[1]) > 0
    /\ Len(image.planes[2]) > 0
    /\ image_op.planes = image.planes

\* ---------------------------------------------------------------- C13
\* The threads between LOCK_OPENCL and the end of UNLOCK_OPENCL.
InCritical == { t \in Threads : thread_pc[t] \in {"body", "unlock"} }
SharedState == << gpu_env, openclutils, handles, last_op >>

\* At most one thread is inside a body; the mutex is held by exactly the
\* thread inside (so it is free when every call has returned); and while a
\* call is in progress some thread inside the module can take its next step.
C13_LockState ==
    /\ Cardinality(InCritical) <= 1
    /\ \A t \in Threads : (atomic_opencl_lock = t) <=> (t \in InCritical)
    /\ (fault = "none" /\ \E t \in Threads : thread_pc[t] # "idle")
       => \E t \in Threads :
             ENABLED (LOCK_OPENCL(t) \/ Body(t) \/ UNLOCK_OPENCL(t))

\* The shared state changes only in the body of the thread that holds the
\* mutex; a return, from a call that succeeded or failed, leaves the mutex
\* free; an Init body that finds the environment uninitialised and succeeds
\* creates the context and the queue and sets the count to 1; an Init body
\* that finds the count above 0 makes no discovery call and, when it
\* succeeds, adds 1 to the count.
C13_LockSteps ==
    /\ SharedState' # SharedState
       => \E t \in Threads :
             /\ atomic_opencl_lock = t
             /\ thread_pc[t] = "body"
             /\ thread_pc'[t] = "unlock"
             /\ \A u \in Threads \ {t} : thread_pc'[u] = thread_pc[u]
    /\ \A t \in Threads :
          (thread_pc[t] = "unlock" /\ thread_pc'[t] = "idle") => atomic_opencl_lock' = 0
    /\ (IsCall("init") /\ SharedState' # SharedState /\ gpu_env.init_count = 0
        /\ gpu_env.is_user_created = 0 /\ last_op'.ret = OK)
       => /\ {"clCreateContextFromType", "clCreateCommandQueue"} \subseteq last_op'.api
          /\ gpu_env'.init_count = 1
    /\ (IsCall("init") /\ SharedState' # SharedState /\ gpu_env.init_count >= 1)
       => /\ last_op'.api \cap DiscoveryCalls = {}
          /\ last_op'.ret = OK => gpu_env'.init_count = gpu_env.init_count + 1

\* C13: the mutex gives mutual exclusion between the bodies of the locked
\* functions and is released on every path; two Init calls in progress at
\* the same time on an uninitialised environment run one after the other,
\* the first doing discovery and context creation, the second none, and
\* leave the count at 2.
C13_LockProtectsCalls == []C13_LockState /\ [][C13_LockSteps]_vars

\* A thread is at the end of a successful Init that made no discovery call
\* and brought the count to 2; it waited at LOCK_OPENCL while another
\* thread ran the body of Init.
C13_Witness ==
    \E t \in Threads :
       /\ thread_pc[t] = "unlock"
       /\ raced[t]
       /\ last_op.op = "init"
       /\ last_op.ret = OK
       /\ last_op.api \cap DiscoveryCalls = {}
       /\ gpu_env.init_count = 2
       /\ outstanding = 2
       /\ gpu_env.context = "own_ctx"

\* ---------------------------------------------------------------- C21
\* The handle a create_kernel or release_kernel call was made on.
CalledOn(h) == last_op'.arg = ToString(h)

\* C21: av_opencl_create_kernel on a handle that holds a kernel, with a name
\* that fits the name buffer, returns 0, makes no API call and changes
\* neither the handle (kernel, queue, stored name), nor any other handle, nor
\* the environment (kernel_count included), whatever the name and whatever
\* kernel_count and program_count are.
C21_RecreateIsNoOp ==
    [][ \A h \in Handles :
          (IsCall("create_kernel") /\ CalledOn(h)
           /\ handles[h].kernel # NullKernel
           /\ ~NameTooLong(last_op'.detail[1]))
          => /\ last_op'.ret = OK
             /\ last_op'.api = {}
             /\ handles' = handles
             /\ gpu_env' = gpu_env ]_vars

\* A handle that holds kernel "kdup" was passed to create_kernel again under
\* the name "kmiss" while kernel_count was at its limit; the call returned 0.
C21_Witness ==
    \E h \in Handles :
       /\ last_op.op = "create_kernel"
       /\ last_op.arg = ToString(h)
       /\ last_op.detail = << "kmiss" >>
       /\ last_op.ret = OK
       /\ handles[h].kernel_name = "kdup"
       /\ handles[h].kernel # NullKernel
       /\ gpu_env.kernel_count >= MAX_KERNEL_NUM

\* ---------------------------------------------------------------- C22
Holding == { h \in Handles : handles[h].kernel # NullKernel }

\* kernel_count is the number of handles that hold a kernel.
KernelCountMatches ==
    /\ gpu_env.kernel_count = Cardinality(Holding)
    /\ gpu_env.kernel_count >= 0

\* A successful create_kernel on an empty handle fills that handle and adds
\* 1; release_kernel on a holding handle clears it and subtracts 1; every
\* other call (a failed create_kernel, a create_kernel on a holding handle,
\* a release_kernel on an empty handle, any other function) leaves the
\* count and the set of holding handles as they were.
KernelCountSteps ==
    \A h \in Handles :
       CalledOn(h) =>
          IF IsCall("create_kernel") /\ handles[h].kernel = NullKernel
             /\ last_op'.ret = OK
          THEN /\ gpu_env'.kernel_count = gpu_env.kernel_count + 1
               /\ handles'[h].kernel # NullKernel
               /\ \A g \in Handles \ {h} : handles'[g] = handles[g]
          ELSE IF IsCall("release_kernel") /\ handles[h].kernel # NullKernel
          THEN /\ gpu_env'.kernel_count = gpu_env.kernel_count - 1
               /\ handles'[h] = EmptyHandle
               /\ \A g \in Handles \ {h} : handles'[g] = handles[g]
          ELSE /\ gpu_env'.kernel_count = gpu_env.kernel_count
               /\ Holding' = Holding

\* C22: in every reachable state kernel_count equals the number of handles
\* holding a kernel and is not negative, and each call changes it as its
\* case requires (+1, -1 or not at all).
C22_KernelCountIsHolders ==
    /\ []KernelCountMatches
    /\ [][ /\ KernelCountSteps
           /\ (~IsCall("create_kernel") /\ ~IsCall("release_kernel"))
              => (gpu_env'.kernel_count = gpu_env.kernel_count /\ handles' = handles)
        ]_vars

\* A create_kernel on an empty handle failed while another handle held the
\* one kernel the table allows: the count is still 1.
C22_Witness ==
    \E h \in Handles, g \in Handles :
       /\ last_op.op = "create_kernel"
       /\ last_op.arg = ToString(h)
       /\ last_op.ret # OK
       /\ handles[h].kernel = NullKernel
       /\ handles[g].kernel # NullKernel
       /\ gpu_env.kernel_count = 1

\* ---------------------------------------------------------------- C23
\* The devices of platform i of the enumerated machine whose name was asked
\* for, in discovery order: class after class, passing over a class whose
\* id query failed.
RECURSIVE QueriedFrom(_, _, _, _)
QueriedFrom(p, i, j, skipped) ==
    IF j > Len(DeviceTypes) THEN << >>
    ELSE (IF << i, j >> \in skipped THEN << >>
          ELSE [k \in 1 .. Len(p[DeviceTypes[j]]) |->
                  Dev(DeviceId(i, j, k), DeviceTypes[j], p[DeviceTypes[j]][k])])
         \o QueriedFrom(p, i, j + 1, skipped)
Queried(i) == QueriedFrom(enumeration.machine[i], i, 1, enumeration.skipped)
Enumerated == enumeration.machine # << >> /\ enumeration.ret = OK

\* C23: after a successful get_device_list, for every platform, device_num
\* is the number of devices whose name query succeeded; slots
\* 0 .. device_num-1 hold exactly those devices, in discovery order (GPU,
\* then CPU, then default, each class in the order of the API); no device
\* whose name query failed is in one of those slots.
C23_NamedDevicesFillSlots ==
    Enumerated =>
       \A i \in 1 .. Len(enumeration.machine) :
          \A node \in {enumeration.list.platform_node[i]}, q \in {Queried(i)} :
          \A named \in {SelectSeq(q, NameOk)} :
             /\ enumeration.list.platform_num = Len(enumeration.machine)
             /\ node.device_num = Cardinality({ k \in 1 .. Len(q) : q[k].name_ok })
             /\ node.device_num = Len(named)
             /\ \A s \in 0 .. (node.device_num - 1) :
                   /\ node.device_node[s].device_id = named[s + 1].device_id
                   /\ node.device_node[s].device_type = named[s + 1].device_type
                   /\ \A k \in 1 .. Len(q) :
                         ~q[k].name_ok => node.device_node[s].device_id # q[k].device_id
             /\ [k \in 1 .. node.device_num |-> node.device_node[k - 1]]
                   = PlatformNode([x \in 1 .. Len(enumeration.machine) |->
                                      IF x = i THEN q ELSE << >>], i).device_node

\* A successful enumeration of two platforms; the second has two GPU
\* devices of which the first fails its name query, and a CPU device: its
\* two named devices are in slots 0 and 1.
C23_Witness ==
    /\ Enumerated
    /\ Len(enumeration.machine) = 2
    /\ enumeration.skipped = {}
    /\ enumeration.machine[2].GPU = << FALSE, TRUE >>
    /\ enumeration.machine[2].CPU = << TRUE >>
    /\ enumeration.list.platform_node[2].device_num = 2
    /\ enumeration.list.platform_node[2].device_node[1].device_type = "CPU"

\* ---------------------------------------------------------------- C24
IsImageCall == image_op'.op \in {"write_image", "read_image"}
PlaneNumAccepted(pn) == pn >= 0 /\ pn <= MAX_PLANES

\* C24: av_opencl_buffer_write_image and av_opencl_buffer_read_image return
\* EINVAL for a plane count that is negative or above the maximum, without
\* an API call and without touching the buffer; for every plane count from
\* 0 to the maximum they return EINVAL only when the planes together are
\* larger than the declared buffer size.
C24_PlaneCountValidated ==
    [][ IsImageCall
        => /\ ~PlaneNumAccepted(image_op'.plane_num)
              => /\ image_op'.ret = EINVAL
                 /\ image_op'.api = {}
                 /\ image_op'.mapped = 0
                 /\ cl_buf' = cl_buf
           /\ (PlaneNumAccepted(image_op'.plane_num) /\ image_op'.ret = EINVAL)
              => Total(image_op'.plane_size) > Len(cl_buf) ]_vars

\* A write of the largest plane count succeeded; after it a read with one
\* plane more was rejected without an API call.
C24_Witness ==
    /\ image.valid
    /\ Len(image.planes) = MAX_PLANES
    /\ image_op.op = "read_image"
    /\ image_op.plane_num = MAX_PLANES + 1
    /\ image_op.ret = EINVAL
    /\ image_op.api = {}

\* ---------------------------------------------------------------- C25
\* An av_opencl_init call that returned (no undefined behaviour on its way).
InitReturned == IsCall("init") /\ fault' = "none"

\* C25: an av_opencl_init call that returns 0 leaves init_count at least 1
\* and one above its value before the call, with a non-null context and
\* command queue; a call that returns an error leaves init_count as it was.
C25_SuccessfulInitIsInitialised ==
    [][ InitReturned
        => /\ last_op'.ret = OK
              => /\ gpu_env'.init_count >= 1
                 /\ gpu_env'.init_count = gpu_env.init_count + 1
                 /\ gpu_env'.context # "NULL"
                 /\ gpu_env'.command_queue # "NULL"
           /\ last_op'.ret # OK => gpu_env'.init_count = gpu_env.init_count ]_vars

\* ---------------------------------------------------------------- C26
\* Source s is part of the program in slot k, and the slot is counted and
\* not released.
InLiveProgram(s, k) ==
    /\ k < gpu_env.program_count
    /\ gpu_env.programs[k] # NullProgram
    /\ \E p \in 1 .. Len(gpu_env.programs[k]) : gpu_env.programs[k][p] = s

\* C26: every registered source marked compiled is part of a program held
\* in one of the slots 0 .. program_count-1.
C26_CompiledSourcesHaveProgram ==
    \A i \in 1 .. Len(gpu_env.kernel_code) :
       gpu_env.kernel_code[i].is_compiled = 1
       => \E k \in DOMAIN gpu_env.programs :
             InLiveProgram(gpu_env.kernel_code[i].kernel_string, k)

\* ---------------------------------------------------------------- C27
\* C27: av_opencl_init creates a context only when the environment holds no
\* context of its own that is still unreleased, and a command queue only
\* when it holds no unreleased queue of its own; so at most one context and
\* one queue are created and not released at any time.
C27_OneContextAtATime ==
    [][ (InitReturned /\ "clCreateContextFromType" \in last_op'.api)
        => /\ gpu_env'.context # "NULL" => gpu_env.context = "NULL"
           /\ ("clCreateCommandQueue" \in last_op'.api
               /\ gpu_env'.command_queue # "NULL")
              => gpu_env.command_queue = "NULL" ]_vars
====
